---- MODULE Spec2Model ----
(***************************************************************************)
(* State-machine model of the wyoming-gemini-live gateway:                *)
(*   - GeminiLiveEventHandler (wyoming_handler.py): the edge-handler loop  *)
(*   - GeminiLiveController (gemini.py): session task _run, _send_loop,    *)
(*     _recv_loop, _handle_tool_calls                                      *)
(*   - HomeAssistantClient.get_states, call_service,                       *)
(*     build_entity_context_lines and filter_entities (ha.py)              *)
(*   - resample_pcm16 / iter_silence_chunks (audio.py)                     *)
(* All fibers run on one asyncio event loop: a step of the model is the    *)
(* code a fiber runs between two suspension points (awaits that yield).    *)
(***************************************************************************)
EXTENDS Integers, Sequences, FiniteSets, TLC

VARIABLES
    settings,            \* Settings (immutable after load)
    hpc,                 \* edge-handler loop: "serving" | "put_wait" | "stopping" | "closed"
    inputs_left,         \* edge events and model messages still to come (bound)
    task,                \* self._task: 0 (None) or an index into tasks
    tasks,               \* every session task created so far: its position in _run
    must_cancel,         \* Task.cancel() requested on tasks[task], not yet delivered
    stop_evt,            \* self._stop_evt
    input_audio_queue,   \* self._input_audio_queue (asyncio.Queue, maxsize 50)
    barge_in,            \* self._barge_in
    output_stream_open,  \* self._output_stream_open
    session,             \* remote live session: "none" | "open" | "closed_ok" | "error" | "closed_local"
    send_pc,             \* _send_loop: "none" | "get" | "send" | "failed"
    send_cur,            \* the chunk _send_loop holds between queue.get() and the send
    recv_pc,             \* _recv_loop position
    recv_msg,            \* the message _recv_loop is processing
    recv_exc,            \* the exception that ended _recv_loop, or "none"
    fc_idx,              \* _handle_tool_calls: index of the function call being answered
    responses,           \* _handle_tool_calls: responses collected so far
    fails_left,          \* connection attempts that may still fail (bound)
    next_id,             \* history: number of chunks accepted by the controller
    sent,                \* history: chunks passed to session.send_realtime_input
    out,                 \* history: callbacks invoked on the adapter
    turn,                \* history: number of model turns begun by _recv_loop
    tool_requests,       \* history: function-call batches carried by received messages
    tool_replies,        \* history: function-response batches submitted on the session
    barge_log,           \* history: the model turn and stream state at the last notify_barge_in()
    flt,                 \* one run of ha.filter_entities: its arguments and results
    pcm,                 \* one call of an audio.py function: its arguments and result
    boot,                \* start-up: the process environment, the options file, whether Settings is loaded
    svc,                 \* one call of _execute_control_home_assistant: its arguments, requests and result
    handoff,             \* history: the chunks dropped by overflow, the chunks passed to the real-time send
    writers,             \* history: the fibers that have written each shared flag
    context              \* _run: the last /api/states response, entity_lines and system_prompt

vars == <<settings, hpc, inputs_left, task, tasks, must_cancel, stop_evt,
          input_audio_queue, barge_in, output_stream_open, session,
          send_pc, send_cur, recv_pc, recv_msg, recv_exc, fc_idx, responses,
          fails_left, next_id, sent, out, turn,
          tool_requests, tool_replies, barge_log, flt, pcm, context, writers, boot, svc, handoff>>

input_vars  == <<input_audio_queue, next_id>>
task_vars   == <<task, tasks, must_cancel, stop_evt>>
send_vars   == <<send_pc, send_cur, sent>>
recv_vars   == <<recv_pc, recv_msg, recv_exc, fc_idx, responses, turn>>
tool_vars   == <<tool_requests, tool_replies>>

----------------------------------------------------------------------------
(* Bounds of the model *)

MaxInputs == 3          \* edge events plus model messages per connection (Spec)
MaxQueueEvents == 7     \* edge events per connection (SpecQueue)
MaxFlowEvents == 2      \* edge events per connection (SpecFlow)
MaxTeardownInputs == 4  \* edge events plus model messages (SpecTeardown)
MaxToolMsgs == 1        \* messages with a tool_call per connection
MaxConnectFailures == 1 \* failed connection attempts
MaxBatch == 2           \* function calls in one tool_call
MaxBargeInputs == 5     \* edge events plus model messages per connection (SpecBarge)
MaxStates == 3          \* entries in the state list given to filter_entities
MaxEntities == 2        \* largest max_entities given to filter_entities
MaxContextStates == 2   \* entries in the state list Home Assistant answers (SpecContext)
MaxDialogEvents == 5    \* edge events of one dialog (SpecDialog)
MaxGreetingEvents == 6  \* one edge event plus the messages of one model turn (SpecGreeting)
MaxDurationMs == 600    \* longest duration given to iter_silence_chunks
MaxSignalLen == 24      \* samples in the longest zero signal given to resample_pcm16
MaxToneLen == 1         \* samples in the longest non-zero signal given to resample_pcm16

(* Program constants *)

QueueMaxSize == 50      \* asyncio.Queue(maxsize=50)

----------------------------------------------------------------------------
(* Settings: the fields of config.Settings the controller reads.           *)

DefaultSettings ==
    [ input_sample_rate_hz         |-> 16000,
      output_sample_rate_hz        |-> 16000,
      gemini_output_sample_rate_hz |-> 24000,
      silence_tail_ms              |-> 600,
      audio_chunk_size             |-> 1024,
      gemini_api_key               |-> <<"k">>,
      ha_configured                |-> TRUE,
      allowed_domains              |->
          << <<"l", "i", "g", "h", "t">>, <<"s", "w", "i", "t", "c", "h">>,
             <<"c", "o", "v", "e", "r">>, <<"c", "l", "i", "m", "a", "t", "e">>,
             <<"l", "o", "c", "k">>, <<"s", "c", "e", "n", "e">>,
             <<"s", "c", "r", "i", "p", "t">> >>,
      entity_allowlist             |-> <<>>,
      entity_blocklist             |-> <<>>,
      max_context_entities         |-> 200 ]

\* A deployment with a short silence tail (SILENCE_TAIL_MS=100).
ShortTailSettings == [DefaultSettings EXCEPT !.silence_tail_ms = 100]

\* A deployment with no Home Assistant token.
NoTokenSettings == [ShortTailSettings EXCEPT !.ha_configured = FALSE]

\* A controller built with settings that hold no API key.
NoKeySettings == [ShortTailSettings EXCEPT !.gemini_api_key = <<>>]

\* Sample rates an edge client declares on its audio chunks.
EdgeRates == {16000, 24000}

\* Samples per edge audio chunk / per model audio payload.
EdgeChunkSamples == 6
ModelAudioSamples == 6

----------------------------------------------------------------------------
(* audio.py *)

RECURSIVE GCD(_, _)
GCD(a, b) == IF b = 0 THEN a ELSE GCD(b, a % b)

\* resample_pcm16 on payload lengths (in samples): identity when the rates
\* are equal, empty for empty input, else resample_poly's output length
\* ceil(n * up / down).
resample_pcm16(n, src_rate_hz, dst_rate_hz) ==
    IF src_rate_hz = dst_rate_hz THEN n
    ELSE IF n = 0 THEN 0
    ELSE LET g    == GCD(src_rate_hz, dst_rate_hz)
             up   == dst_rate_hz \div g
             down == src_rate_hz \div g
         IN  (n * up) \div down + (IF (n * up) % down = 0 THEN 0 ELSE 1)

RECURSIVE Pow2(_)
Pow2(k) == IF k <= 0 THEN 1 ELSE 2 * Pow2(k - 1)

\* 2^k modulo m.
RECURSIVE Pow2Mod(_, _)
Pow2Mod(k, m) == IF k <= 0 THEN 1 % m ELSE (2 * Pow2Mod(k - 1, m)) % m

\* floor(log2(n)) for n >= 1.
RECURSIVE Log2Floor(_)
Log2Floor(n) == IF n <= 1 THEN 0 ELSE 1 + Log2Floor(n \div 2)

\* The binary exponent t of d / 1000: 1000 <= d * 2^t < 2000, for d >= 1.
RECURSIVE ScaleExp(_, _)
ScaleExp(d, t) ==
    IF t >= 0 /\ d * Pow2(t) < 1000 THEN ScaleExp(d, t + 1)
    ELSE IF t <= 0 /\ d >= 2000 * Pow2(0 - t) THEN ScaleExp(d, t - 1)
    ELSE t

\* int((d / 1000.0) * rate) in IEEE-754 double arithmetic (round to nearest
\* even), for d >= 1 and rate >= 1.  d / 1000.0 is the double M / 2^s with
\* s = 52 + t and M = round(d * 2^s / 1000); r is the remainder of that
\* division, so M * 1000 = d * 2^s - r when 0 <= r < 500 (rounded down) and
\* d * 2^s + (1000 - r) otherwise.  The exact product M * rate / 2^s is
\* d * rate / 1000 - r * rate / (1000 * 2^s) when rounded down.  When
\* d * rate / 1000 is not an integer the error is far below its fraction
\* and truncation gives the floor.  When it is an integer n, the product
\* rounds to n unless it lies more than half a spacing below n; the doubles
\* just below n are 2^(e-52) apart (2^(e-53) when n = 2^e), e = floor(log2 n).
FloatTruncProduct(d, rate) ==
    LET exact == d * rate
        n     == exact \div 1000
        t     == ScaleExp(d, 0)
        r     == (d * Pow2Mod(52 + t, 1000)) % 1000
        e     == Log2Floor(n)
        k     == IF n = Pow2(e) THEN t + e - 2 ELSE t + e - 1
        lhs   == r * rate * (IF k < 0 THEN Pow2(0 - k) ELSE 1)
        rhs   == 1000 * Pow2(k)
    IN  IF exact % 1000 # 0 THEN n
        ELSE IF r = 0 \/ r >= 500 THEN n
        ELSE IF lhs > rhs THEN n - 1
        ELSE n

\* `int((duration_ms / 1000.0) * sample_rate_hz)`
total_samples_of(d, rate) == FloatTruncProduct(d, rate)

\* A resampler that filters even when the two rates are equal.
ResampleAlwaysFilters(x, src_rate_hz, dst_rate_hz, values) ==
    IF x = <<>> THEN {<<>>}
    ELSE [1..resample_pcm16(Len(x), src_rate_hz, dst_rate_hz) -> values]

\* The signals resample_pcm16 may return for the samples x: x itself when
\* the rates are equal, the empty signal for empty input, else a signal of
\* resample_poly's output length.  resample_poly is a linear filter: a zero
\* signal gives zeros; the values it gives for other signals are left open.
ResampleOutputs(x, src_rate_hz, dst_rate_hz, values) ==
    IF src_rate_hz = dst_rate_hz THEN {x}
    ELSE IF x = <<>> THEN {<<>>}
    ELSE LET n == resample_pcm16(Len(x), src_rate_hz, dst_rate_hz)
         IN  IF \A i \in 1..Len(x) : x[i] = 0
             THEN {[i \in 1..n |-> 0]}
             ELSE [1..n -> values]

\* A generator that yields the full chunks only.
SilenceFullChunksOnly(duration_ms, sample_rate_hz, chunk_size_samples) ==
    IF duration_ms <= 0 THEN <<>>
    ELSE [i \in 1..(total_samples_of(duration_ms, sample_rate_hz)
                        \div chunk_size_samples) |-> chunk_size_samples]

\* iter_silence_chunks: the lengths (in samples) of the chunks it yields.
iter_silence_chunks(duration_ms, sample_rate_hz, chunk_size_samples) ==
    IF duration_ms <= 0 THEN <<>>
    ELSE LET total_samples == total_samples_of(duration_ms, sample_rate_hz)
             full_chunks   == total_samples \div chunk_size_samples
             remainder     == total_samples % chunk_size_samples
         IN  [i \in 1..full_chunks |-> chunk_size_samples]
             \o (IF remainder # 0 THEN <<remainder>> ELSE <<>>)

----------------------------------------------------------------------------
(* ha.py: filter_entities.  Strings are sequences of one-character strings. *)

\* str.strip(): leading and trailing blanks removed.
RECURSIVE lstrip(_)
lstrip(str) ==
    IF str # <<>> /\ Head(str) = " " THEN lstrip(Tail(str)) ELSE str

RECURSIVE rstrip(_)
rstrip(str) ==
    IF str # <<>> /\ str[Len(str)] = " "
    THEN rstrip(SubSeq(str, 1, Len(str) - 1))
    ELSE str

strip(str) == rstrip(lstrip(str))

\* str.split(".", 1)[0]: the characters before the first ".".
RECURSIVE BeforeDot(_)
BeforeDot(str) ==
    IF str = <<>> \/ Head(str) = "." THEN <<>>
    ELSE <<Head(str)>> \o BeforeDot(Tail(str))

\* _domain(entity_id)
_domain(entity_id) ==
    IF \E i \in 1..Len(entity_id) : entity_id[i] = "."
    THEN BeforeDot(entity_id)
    ELSE <<>>

\* fnmatch.fnmatch(value, pat) for patterns of literals, "*" and "?".
RECURSIVE fnmatch(_, _)
fnmatch(value, pat) ==
    IF pat = <<>> THEN value = <<>>
    ELSE IF Head(pat) = "*"
    THEN \/ fnmatch(value, Tail(pat))
         \/ value # <<>> /\ fnmatch(Tail(value), pat)
    ELSE IF Head(pat) = "?"
    THEN value # <<>> /\ fnmatch(Tail(value), Tail(pat))
    ELSE /\ value # <<>>
         /\ Head(value) = Head(pat)
         /\ fnmatch(Tail(value), Tail(pat))

\* A test of the first pattern only.
MatchesFirstOnly(patterns, value) ==
    patterns # <<>> /\ fnmatch(value, patterns[1])

\* _matches_any(patterns, value)
_matches_any(patterns, value) ==
    \E i \in 1..Len(patterns) : fnmatch(value, patterns[i])

EntityView(s, entity_id) ==
    [ entity_id |-> entity_id,
      name      |-> IF s.friendly_name # "" THEN s.friendly_name ELSE entity_id,
      state     |-> s.state,
      domain    |-> _domain(entity_id) ]

\* The for loop of filter_entities from entry i on: the indices of the
\* entries it keeps, given those kept so far.
RECURSIVE FilterScan(_, _, _, _, _, _, _)
FilterScan(states, allowed_domains, allowlist, blocklist, max_entities, i, kept) ==
    IF i > Len(states) THEN kept
    ELSE LET entity_id == strip(states[i].entity_id)
             dom       == _domain(entity_id)
             skip ==
                 \/ entity_id = <<>>
                 \/ /\ allowed_domains # <<>>
                    /\ \A d \in 1..Len(allowed_domains) :
                           allowed_domains[d] # dom
                 \/ allowlist # <<>> /\ ~_matches_any(allowlist, entity_id)
                 \/ blocklist # <<>> /\ _matches_any(blocklist, entity_id)
         IN  IF skip
             THEN FilterScan(states, allowed_domains, allowlist, blocklist,
                             max_entities, i + 1, kept)
             ELSE IF Len(kept) + 1 >= max_entities
             THEN Append(kept, i)
             ELSE FilterScan(states, allowed_domains, allowlist, blocklist,
                             max_entities, i + 1, Append(kept, i))

\* A loop that starts at the second entry.
KeptFromSecond(states, allowed_domains, allowlist, blocklist, max_entities) ==
    FilterScan(states, allowed_domains, allowlist, blocklist, max_entities,
               2, <<>>)

\* The indices of the entries filter_entities keeps.
Kept(states, allowed_domains, allowlist, blocklist, max_entities) ==
    FilterScan(states, allowed_domains, allowlist, blocklist, max_entities,
               1, <<>>)

filter_entities(states, allowed_domains, allowlist, blocklist, max_entities) ==
    LET kept == Kept(states, allowed_domains, allowlist, blocklist,
                     max_entities)
    IN  [k \in 1..Len(kept) |->
            EntityView(states[kept[k]], strip(states[kept[k]].entity_id))]

----------------------------------------------------------------------------
(* ha.py: get_states and build_entity_context_lines; prompts.py            *)

\* What GET /api/states does: the transport raises, or a response arrives
\* with a status and a JSON body that is a list of states or something else.
TransportError == [kind |-> "raise"]

HttpResponse(status, is_list, body) ==
    [kind |-> "response", status |-> status, is_list |-> is_list, body |-> body]

\* get_states(): the states returned, or the exception raised.
get_states(r) ==
    IF r.kind = "raise" THEN [exc |-> "ClientError", states |-> <<>>]
    ELSE IF r.status # 200
    THEN IF r.status = 401
         THEN [exc |-> "none", states |-> <<>>]
         ELSE [exc |-> "RuntimeError", states |-> <<>>]
    ELSE IF ~r.is_list THEN [exc |-> "RuntimeError", states |-> <<>>]
    ELSE [exc |-> "none", states |-> r.body]

CouldNotFetch == [text |-> "(Could not fetch Home Assistant entity list.)"]
NoEntitiesMatched == [text |-> "(No entities matched the current filters.)"]

\* f"- {ent.name} ({ent.entity_id}) = {ent.state}"
EntityLine(ent) ==
    [text |-> "- {name} ({entity_id}) = {state}",
     name |-> ent.name, entity_id |-> ent.entity_id, state |-> ent.state]

\* A context builder that returns no line when the fetch fails or nothing
\* matches.
LinesWithoutPlaceholder(r, allowed_domains, allowlist, blocklist, max_entities) ==
    LET fetched == get_states(r)
        entities == filter_entities(fetched.states, allowed_domains,
                                    allowlist, blocklist, max_entities)
    IN  IF fetched.exc # "none" THEN <<>>
        ELSE [k \in 1..Len(entities) |-> EntityLine(entities[k])]

\* build_entity_context_lines(...) when GET /api/states does r.
build_entity_context_lines(r, allowed_domains, allowlist, blocklist, max_entities) ==
    LET fetched == get_states(r)
    IN  IF fetched.exc # "none" THEN <<CouldNotFetch>>
        ELSE LET entities == filter_entities(fetched.states, allowed_domains,
                                             allowlist, blocklist,
                                             max_entities)
                 lines == [k \in 1..Len(entities) |->
                              EntityLine(entities[k])]
             IN  IF lines = <<>> THEN <<NoEntitiesMatched>> ELSE lines

\* build_system_prompt(entity_lines): the fixed rules, then the device block
\* made of the entity lines, one per line.
build_system_prompt(entity_lines) ==
    [ rules        |-> "You are a voice-first smart home assistant ...",
      device_block |-> entity_lines ]

\* No context built yet.
NoContext == [fetch |-> [kind |-> "none"], entity_lines |-> <<>>, system_prompt |-> "none", fetches |-> <<>>]

----------------------------------------------------------------------------
(* config.py: Settings.from_env_and_addon_options.  An environment variable *)
(* or an option is absent (Unset) or has a value (Val(v)).                   *)

Unset == [set |-> FALSE, v |-> <<>>]
Val(v) == [set |-> TRUE, v |-> v]

DigitChars == <<"0", "1", "2", "3", "4", "5", "6", "7", "8", "9">>

\* str(n) for an integer n >= 0.
RECURSIVE py_str(_)
py_str(n) ==
    IF n < 10 THEN <<DigitChars[n + 1]>>
    ELSE py_str(n \div 10) \o <<DigitChars[(n % 10) + 1]>>

RECURSIVE DigitsValue(_, _)
DigitsValue(str, acc) ==
    IF str = <<>> THEN acc
    ELSE DigitsValue(Tail(str),
                     acc * 10 + (CHOOSE d \in 0..9 : DigitChars[d + 1] = Head(str)))

\* int(str) for unsigned decimal literals: blanks around the digits are
\* accepted, anything else raises ValueError.
py_int(str) ==
    LET t == strip(str)
    IN  IF t # <<>> /\ \A i \in 1..Len(t) : \E d \in 1..10 : DigitChars[d] = t[i]
        THEN [ok |-> TRUE, n |-> DigitsValue(t, 0)]
        ELSE [ok |-> FALSE, n |-> 0]

\* value.split(","): the parts of str between commas, cur being the part
\* read so far.
RECURSIVE SplitComma(_, _)
SplitComma(str, cur) ==
    IF str = <<>> THEN <<cur>>
    ELSE IF Head(str) = "," THEN <<cur>> \o SplitComma(Tail(str), <<>>)
    ELSE SplitComma(Tail(str), Append(cur, Head(str)))

NonBlank(part) == strip(part) # <<>>

\* _split_csv(value)
_split_csv(value) ==
    IF ~value.set \/ value.v = <<>> THEN <<>>
    ELSE LET parts == SelectSeq(SplitComma(value.v, <<>>), NonBlank)
         IN  [i \in 1..Len(parts) |-> strip(parts[i])]

\* _first(*values): the first value that is set and not blank.
RECURSIVE _first(_)
_first(values) ==
    IF values = <<>> THEN Unset
    ELSE IF Head(values).set /\ strip(Head(values).v) # <<>> THEN Head(values)
    ELSE _first(Tail(values))

\* A string key: _first(env, option), "" when neither is given.
StringSetting(env_value, option) ==
    _first(<<env_value, option>>).v

\* An integer key: `_first(env, str(option))`, then
\* `int(x) if x else default` with ValueError giving the default.
IntSetting(env_value, option, default) ==
    LET text == _first(<<env_value,
                         IF option.set THEN Val(py_str(option.v)) ELSE Unset>>)
    IN  IF ~text.set THEN default
        ELSE IF py_int(text.v).ok THEN py_int(text.v).n
        ELSE default

\* A list key: the list of the options file when there is one, else the
\* comma-separated environment variable.
ListSetting(env_value, option) ==
    IF option.set THEN option.v ELSE _split_csv(env_value)

\* Settings.from_env_and_addon_options() for the environment env and the
\* options file options: the keys HA_TOKEN, SILENCE_TAIL_MS,
\* MAX_CONTEXT_ENTITIES, ALLOWED_DOMAINS and ENTITY_BLOCKLIST.
from_env_and_addon_options(env, options) ==
    LET allowed == ListSetting(env.ALLOWED_DOMAINS, options.allowed_domains)
    IN  [ ha_token             |-> StringSetting(env.HA_TOKEN, options.ha_token),
          silence_tail_ms      |->
              IntSetting(env.SILENCE_TAIL_MS, options.silence_tail_ms,
                         DefaultSettings.silence_tail_ms),
          max_context_entities |->
              IntSetting(env.MAX_CONTEXT_ENTITIES, options.max_context_entities,
                         DefaultSettings.max_context_entities),
          allowed_domains      |->
              IF allowed = <<>> THEN DefaultSettings.allowed_domains
              ELSE allowed,
          entity_blocklist     |->
              ListSetting(env.ENTITY_BLOCKLIST, options.entity_blocklist) ]

----------------------------------------------------------------------------
(* The input queue *)

NoChunk == [id |-> 0, kind |-> "none", samples |-> 0]

Full(q) == Len(q) >= QueueMaxSize

\* A drop that removes the newest queued chunk instead of the oldest.
DropNewest(q) == IF Full(q) THEN SubSeq(q, 1, Len(q) - 1) ELSE q

\* "If the queue is full, drop oldest": get_nowait() when full().
DropOldest(q) == IF Full(q) THEN Tail(q) ELSE q

\* One iteration of the enqueue code: drop-oldest, then `await put(x)`.
\* put() suspends only while the queue is full; `blocked` records that.
ForcePush(st, x) ==
    IF st.blocked THEN st
    ELSE LET q == DropOldest(st.q)
         IN  IF Full(q) THEN [q |-> q, blocked |-> TRUE]
             ELSE [q |-> Append(q, x), blocked |-> FALSE]

RECURSIVE ForcePushAll(_, _)
ForcePushAll(st, xs) ==
    IF xs = <<>> THEN st
    ELSE ForcePushAll(ForcePush(st, Head(xs)), Tail(xs))

\* The ids of the chunks that the enqueue code removes by get_nowait()
\* while it puts the chunks xs.
RECURSIVE DroppedIds(_, _)
DroppedIds(st, xs) ==
    IF xs = <<>> \/ st.blocked THEN {}
    ELSE (IF Full(st.q) THEN {Head(st.q).id} ELSE {})
         \cup DroppedIds(ForcePush(st, Head(xs)), Tail(xs))

\* A get that takes the chunk queued last.
QueueGetNewest(q) ==
    [item |-> q[Len(q)], rest |-> SubSeq(q, 1, Len(q) - 1)]

\* asyncio.Queue.get() on a non-empty queue: the chunk queued first.
QueueGet(q) == [item |-> Head(q), rest |-> Tail(q)]

\* Chunks numbered in the order the controller accepts them.
Numbered(kind, lens, base) ==
    [i \in 1..Len(lens) |-> [id |-> base + i, kind |-> kind, samples |-> lens[i]]]

----------------------------------------------------------------------------
(* GeminiLiveController: running, ensure_running, stop *)

\* A check that takes a task for finished as soon as it has been scheduled.
RunningOnlyWhenNew == task # 0 /\ tasks[task] = "new"

\* The property `running`: a task exists and is not done.
running == task # 0 /\ tasks[task] # "done"

\* The flags shared between the fibers of one edge connection.
SharedFlags == {"barge_in", "output_stream_open", "stop_signal"}

\* A record of every write under the edge handler's name.
WritesAsEdgeHandler(flags, fiber) ==
    writers' = [f \in SharedFlags |->
                   IF f \in flags THEN writers[f] \cup {"edge-handler"}
                   ELSE writers[f]]

\* The code run by `fiber` in this step assigns the flags in `flags`.
Writes(flags, fiber) ==
    writers' = [f \in SharedFlags |->
                   IF f \in flags THEN writers[f] \cup {fiber}
                   ELSE writers[f]]

\* ensure_running() clears the stop signal when it creates a task.
EnsureRunningWrites == IF running THEN {} ELSE {"stop_signal"}

\* ensure_running(): no suspension point.
ensure_running ==
    IF running
    THEN UNCHANGED <<task, tasks, stop_evt>>
    ELSE /\ stop_evt' = FALSE
         /\ tasks' = Append(tasks, "new")
         /\ task' = Len(tasks) + 1

\* stop() up to `await asyncio.gather(self._task)`.
StopBegin ==
    /\ stop_evt' = TRUE
    /\ IF task = 0
       THEN hpc' = "closed" /\ UNCHANGED must_cancel
       ELSE /\ hpc' = "stopping"
            /\ must_cancel' = (tasks[task] # "done")
    /\ UNCHANGED <<task, tasks>>

----------------------------------------------------------------------------
(* GeminiLiveEventHandler.handle_event and run *)

Enqueue(kind, lens) ==
    LET st == ForcePushAll([q |-> input_audio_queue, blocked |-> FALSE],
                           Numbered(kind, lens, next_id))
    IN  /\ input_audio_queue' = st.q
        /\ next_id' = next_id + Len(lens)
        /\ handoff' = [handoff EXCEPT !.dropped =
                           @ \cup DroppedIds([q |-> input_audio_queue,
                                              blocked |-> FALSE],
                                             Numbered(kind, lens, next_id))]
        /\ hpc' = IF st.blocked THEN "put_wait" ELSE "serving"

\* The state of the model turn when the edge sends audio-start: the output
\* stream is open ("streaming"), the turn has produced no callback yet
\* ("fresh"), the receive loop is in on_start() ("starting"), or no turn is
\* in progress ("idle").
BargeInKind ==
    IF recv_pc \notin {"msg", "cb_start", "cb_chunk", "tool_post"} THEN "idle"
    ELSE IF output_stream_open THEN "streaming"
    ELSE IF recv_pc = "cb_start" THEN "starting"
    ELSE IF \A j \in 1..Len(out) : out[j].turn # turn THEN "fresh"
    ELSE "idle"

\* A describe handler that starts the session.
HandleDescribeSpawns ==
    /\ hpc = "serving" /\ inputs_left > 0
    /\ inputs_left' = inputs_left - 1
    /\ ensure_running
    /\ Writes(EnsureRunningWrites, "edge-handler")
    /\ UNCHANGED <<settings, barge_log, flt, pcm, boot, svc, handoff, context, hpc, must_cancel, input_vars,
                   barge_in, output_stream_open, session, send_vars, recv_vars,
                   fails_left, out, tool_vars>>

\* Describe: the adapter answers with its Info; the controller is not used.
HandleDescribe ==
    /\ hpc = "serving" /\ inputs_left > 0
    /\ inputs_left' = inputs_left - 1
    /\ UNCHANGED <<settings, barge_log, flt, pcm, boot, svc, handoff, writers, context, hpc, task_vars, input_vars, barge_in,
                   output_stream_open, session, send_vars, recv_vars,
                   fails_left, out, tool_vars>>

\* notify_barge_in(): `self._barge_in = True` (barge_log notes when).
notify_barge_in ==
    /\ barge_in' = TRUE
    /\ barge_log' = [turn |-> turn, kind |-> BargeInKind]

\* A notify_barge_in() that also ends the output stream.
NotifyBargeInClosesStream ==
    /\ hpc = "serving" /\ inputs_left > 0
    /\ inputs_left' = inputs_left - 1
    /\ notify_barge_in
    /\ output_stream_open' = FALSE
    /\ Writes({"barge_in", "output_stream_open"}, "edge-handler")
    /\ UNCHANGED <<settings, flt, pcm, boot, svc, handoff, context, hpc, task_vars,
                   input_vars, session, send_vars, recv_vars,
                   fails_left, out, tool_vars>>

\* A call of notify_barge_in() alone, by a user of the controller.
NotifyBargeIn ==
    /\ hpc = "serving" /\ inputs_left > 0
    /\ inputs_left' = inputs_left - 1
    /\ notify_barge_in
    /\ Writes({"barge_in"}, "edge-handler")
    /\ UNCHANGED <<settings, flt, pcm, boot, svc, handoff, context, hpc, task_vars,
                   input_vars, output_stream_open, session,
                   send_vars, recv_vars, fails_left, out, tool_vars>>

HandleAudioStart ==
    /\ hpc = "serving" /\ inputs_left > 0
    /\ inputs_left' = inputs_left - 1
    /\ notify_barge_in
    /\ ensure_running
    /\ Writes({"barge_in"} \cup EnsureRunningWrites, "edge-handler")
    /\ UNCHANGED <<settings, flt, pcm, boot, svc, handoff, context, hpc, must_cancel, input_vars,
                   output_stream_open, session, send_vars, recv_vars,
                   fails_left, out, tool_vars>>

\* enqueue_audio(chunk.audio, src_rate_hz=rate)
HandleAudioChunk(rate) ==
    /\ hpc = "serving" /\ inputs_left > 0
    /\ inputs_left' = inputs_left - 1
    /\ ensure_running
    /\ barge_in' = FALSE
    /\ Enqueue("audio",
               <<resample_pcm16(EdgeChunkSamples, rate,
                                settings.input_sample_rate_hz)>>)
    /\ Writes({"barge_in"} \cup EnsureRunningWrites, "edge-handler")
    /\ UNCHANGED <<settings, barge_log, flt, pcm, boot, svc, context, must_cancel, output_stream_open, session,
                   send_vars, recv_vars, fails_left, out,
                   tool_vars>>

\* end_user_turn()
HandleAudioStop ==
    /\ hpc = "serving" /\ inputs_left > 0
    /\ inputs_left' = inputs_left - 1
    /\ ensure_running
    /\ Enqueue("silence",
               iter_silence_chunks(settings.silence_tail_ms,
                                   settings.input_sample_rate_hz,
                                   settings.audio_chunk_size))
    /\ Writes(EnsureRunningWrites, "edge-handler")
    /\ UNCHANGED <<settings, barge_log, flt, pcm, boot, svc, context, must_cancel, barge_in, output_stream_open,
                   session, send_vars, recv_vars, fails_left,
                   out, tool_vars>>

\* Any other event type: handle_event returns False, run() leaves its loop
\* and its finally block calls stop().
HandleUnknownEvent ==
    /\ hpc = "serving" /\ inputs_left > 0
    /\ inputs_left' = inputs_left - 1
    /\ StopBegin
    /\ Writes({"stop_signal"}, "edge-handler")
    /\ UNCHANGED <<settings, barge_log, flt, pcm, boot, svc, handoff, context, input_vars, barge_in, output_stream_open,
                   session, send_vars, recv_vars, fails_left,
                   out, tool_vars>>

\* The client disconnects: run() ends and its finally block calls stop().
EdgeDisconnect ==
    /\ hpc = "serving"
    /\ StopBegin
    /\ Writes({"stop_signal"}, "edge-handler")
    /\ UNCHANGED <<settings, barge_log, flt, pcm, boot, svc, handoff, context, inputs_left, input_vars, barge_in,
                   output_stream_open, session, send_vars, recv_vars,
                   fails_left, out, tool_vars>>

\* stop() after gather: the session task has finished.
StopFinish ==
    /\ hpc = "stopping"
    /\ tasks[task] = "done"
    /\ task' = 0
    /\ hpc' = "closed"
    /\ UNCHANGED <<settings, barge_log, flt, pcm, boot, svc, handoff, writers, context, inputs_left, tasks, must_cancel, stop_evt,
                   input_vars, barge_in, output_stream_open, session,
                   send_vars, recv_vars, fails_left, out,
                   tool_vars>>

----------------------------------------------------------------------------
(* Callbacks into the adapter (OutputAudioCallbacks).  Each is a suspension *)
(* point: the adapter writes the event to the edge socket.                  *)

Callback(cb, arg) ==
    [cb |-> cb, arg |-> arg, turn |-> turn, barge |-> barge_in,
     after |-> IF barge_log.turn = turn THEN barge_log.kind ELSE "none"]

Invoke(cb, arg) == out' = Append(out, Callback(cb, arg))

----------------------------------------------------------------------------
(* GeminiLiveController._run: one step per suspension point.               *)
(*   "new"     created by ensure_running, not yet scheduled                 *)
(*   "ctx"     awaiting build_entity_context_lines                          *)
(*   "connect" awaiting live.connect(...).__aenter__                        *)
(*   "wait"    awaiting self._stop_evt.wait()                               *)
(*   "closing" in the session's __aexit__                                   *)
(*   "fin_cb"  awaiting on_stop() in the finally block                      *)
(* stop() sets the event and cancels the task in one step, so the task is   *)
(* resumed from "wait" by CancelledError (Task.cancel on a task whose       *)
(* waiter is already done marks it must-cancel): the statements after the   *)
(* wait are never reached.                                                   *)

Cancelled(i) == must_cancel /\ i = task

\* A finally block that emits on_stop() whether or not a stream is open.
RunFinallyAlwaysStop(i) ==
    /\ Invoke("stop", 0)
    /\ tasks' = [tasks EXCEPT ![i] = "fin_cb"]

\* The finally block of _run.
RunFinally(i) ==
    IF output_stream_open
    THEN /\ Invoke("stop", 0)
         /\ tasks' = [tasks EXCEPT ![i] = "fin_cb"]
    ELSE /\ tasks' = [tasks EXCEPT ![i] = "done"]
         /\ UNCHANGED out

RunStartWithoutKey(i) ==
    /\ tasks[i] = "new" /\ ~Cancelled(i)
    /\ tasks' = [tasks EXCEPT ![i] = "ctx"]
    /\ UNCHANGED <<settings, barge_log, flt, pcm, boot, svc, handoff, writers, context, hpc, inputs_left, task, must_cancel, stop_evt,
                   input_vars, barge_in, output_stream_open, session,
                   send_vars, recv_vars, fails_left, out,
                   tool_vars>>

\* _run up to its first await: without an API key it logs and returns,
\* else it calls build_entity_context_lines.
RunStart(i) ==
    /\ tasks[i] = "new" /\ ~Cancelled(i)
    /\ tasks' = [tasks EXCEPT ![i] = IF settings.gemini_api_key = <<>>
                                     THEN "done" ELSE "ctx"]
    /\ UNCHANGED <<settings, barge_log, flt, pcm, boot, svc, handoff, writers, context, hpc, inputs_left, task, must_cancel, stop_evt,
                   input_vars, barge_in, output_stream_open, session,
                   send_vars, recv_vars, fails_left, out,
                   tool_vars>>

\* build_entity_context_lines returns (GET /api/states did r); the system
\* prompt and the connect configuration are built, the connection is begun.
RunContext(i, r) ==
    /\ tasks[i] = "ctx" /\ ~Cancelled(i)
    /\ LET entity_lines ==
               build_entity_context_lines(r, settings.allowed_domains,
                                          settings.entity_allowlist,
                                          settings.entity_blocklist,
                                          settings.max_context_entities)
       IN  context' = [ fetch         |-> r,
                        entity_lines  |-> entity_lines,
                        system_prompt |-> build_system_prompt(entity_lines),
                        fetches       |->
                            Append(context.fetches,
                                   [task |-> i, session |-> session,
                                    turn |-> turn]) ]
    /\ tasks' = [tasks EXCEPT ![i] = "connect"]
    /\ UNCHANGED <<settings, barge_log, flt, pcm, boot, svc, handoff, writers, hpc, inputs_left, task, must_cancel, stop_evt,
                   input_vars, barge_in, output_stream_open, session,
                   send_vars, recv_vars, fails_left, out,
                   tool_vars>>

\* The session opens: both sub-tasks are created.
RunConnectOk(i) ==
    /\ tasks[i] = "connect" /\ ~Cancelled(i)
    /\ tasks' = [tasks EXCEPT ![i] = "wait"]
    /\ session' = "open"
    /\ send_pc' = "get"
    /\ recv_pc' = "turn"
    /\ UNCHANGED <<settings, barge_log, flt, pcm, boot, svc, handoff, writers, context, hpc, inputs_left, task, must_cancel, stop_evt,
                   input_vars, barge_in, output_stream_open, send_cur, sent,
                   recv_msg, recv_exc, fc_idx, responses, turn, fails_left,
                   out, tool_vars>>

\* Opening the session raises: logged, then the finally block.
RunConnectFail(i) ==
    /\ tasks[i] = "connect" /\ ~Cancelled(i)
    /\ fails_left > 0
    /\ fails_left' = fails_left - 1
    /\ RunFinally(i)
    /\ UNCHANGED <<settings, barge_log, flt, pcm, boot, svc, handoff, writers, context, hpc, inputs_left, task, must_cancel, stop_evt,
                   input_vars, barge_in, output_stream_open, session,
                   send_vars, recv_vars, tool_vars>>

\* CancelledError delivered before the try block is entered.
RunCancelEarly(i) ==
    /\ Cancelled(i) /\ tasks[i] \in {"new", "ctx"}
    /\ must_cancel' = FALSE
    /\ tasks' = [tasks EXCEPT ![i] = "done"]
    /\ UNCHANGED <<settings, barge_log, flt, pcm, boot, svc, handoff, writers, context, hpc, inputs_left, task, stop_evt, input_vars,
                   barge_in, output_stream_open, session, send_vars,
                   recv_vars, fails_left, out, tool_vars>>

\* CancelledError delivered while connecting: re-raised, then finally.
RunCancelConnect(i) ==
    /\ Cancelled(i) /\ tasks[i] = "connect"
    /\ must_cancel' = FALSE
    /\ RunFinally(i)
    /\ UNCHANGED <<settings, barge_log, flt, pcm, boot, svc, handoff, writers, context, hpc, inputs_left, task, stop_evt, input_vars,
                   barge_in, output_stream_open, session, send_vars,
                   recv_vars, fails_left, tool_vars>>

\* CancelledError delivered at the wait: the `async with` block is left,
\* the session starts closing.  Neither sub-task is cancelled.
RunCancelWait(i) ==
    /\ Cancelled(i) /\ tasks[i] = "wait"
    /\ must_cancel' = FALSE
    /\ tasks' = [tasks EXCEPT ![i] = "closing"]
    /\ session' = "closed_local"
    /\ UNCHANGED <<settings, barge_log, flt, pcm, boot, svc, handoff, writers, context, hpc, inputs_left, task, stop_evt, input_vars,
                   barge_in, output_stream_open, send_vars, recv_vars,
                   fails_left, out, tool_vars>>

\* __aexit__ returns: CancelledError re-raised, then finally.
RunClosed(i) ==
    /\ tasks[i] = "closing"
    /\ RunFinally(i)
    /\ UNCHANGED <<settings, barge_log, flt, pcm, boot, svc, handoff, writers, context, hpc, inputs_left, task, must_cancel, stop_evt,
                   input_vars, barge_in, output_stream_open, session,
                   send_vars, recv_vars, fails_left, tool_vars>>

\* on_stop() returned in the finally block.
RunFinallyDone(i) ==
    /\ tasks[i] = "fin_cb"
    /\ output_stream_open' = FALSE
    /\ tasks' = [tasks EXCEPT ![i] = "done"]
    /\ Writes({"output_stream_open"}, "session-task")
    /\ UNCHANGED <<settings, barge_log, flt, pcm, boot, svc, handoff, context, hpc, inputs_left, task, must_cancel, stop_evt,
                   input_vars, barge_in, session, send_vars, recv_vars,
                   fails_left, out, tool_vars>>

----------------------------------------------------------------------------
(* GeminiLiveController._send_loop *)

\* A get that leaves the chunk in the queue.
SendLoopPeek ==
    /\ send_pc = "get"
    /\ input_audio_queue # <<>>
    /\ send_cur' = QueueGet(input_audio_queue).item
    /\ handoff' = [handoff EXCEPT
                       !.passed = Append(@, QueueGet(input_audio_queue).item.id)]
    /\ send_pc' = "send"
    /\ UNCHANGED <<settings, barge_log, flt, pcm, boot, svc, writers, context, hpc, inputs_left, task_vars, input_vars, barge_in,
                   output_stream_open, session, sent, recv_vars, fails_left, out, tool_vars>>

\* `pcm16 = await self._input_audio_queue.get()` returns and
\* send_realtime_input is called with the chunk.
SendLoopGet ==
    /\ send_pc = "get"
    /\ input_audio_queue # <<>>
    /\ send_cur' = QueueGet(input_audio_queue).item
    /\ input_audio_queue' = QueueGet(input_audio_queue).rest
    /\ handoff' = [handoff EXCEPT
                       !.passed = Append(@, QueueGet(input_audio_queue).item.id)]
    /\ send_pc' = "send"
    /\ UNCHANGED <<settings, barge_log, flt, pcm, boot, svc, writers, context, hpc, inputs_left, task_vars, next_id, barge_in,
                   output_stream_open, session, sent, recv_vars, fails_left, out, tool_vars>>

\* `await session.send_realtime_input(audio=...)`: raises on a closed
\* session, which ends the loop.
SendLoopSend ==
    /\ send_pc = "send"
    /\ IF session = "open"
       THEN /\ sent' = Append(sent, send_cur)
            /\ send_pc' = "get"
       ELSE /\ send_pc' = "failed"
            /\ UNCHANGED sent
    /\ send_cur' = NoChunk
    /\ UNCHANGED <<settings, barge_log, flt, pcm, boot, svc, handoff, writers, context, hpc, inputs_left, task_vars, input_vars, barge_in,
                   output_stream_open, session, recv_vars, fails_left, out, tool_vars>>

----------------------------------------------------------------------------
(* Messages of the remote model and tool calls *)

ToolNames == {"control_home_assistant", "other_tool"}

\* fc.args: a mapping with domain and service, a mapping whose domain or
\* service is empty after trimming, or not a mapping at all.
ArgKinds == {"valid", "missing", "nomap"}

CallIds == 1..MaxBatch

FunctionCalls ==
    { fc \in [id : CallIds, name : ToolNames, args : ArgKinds] :
        fc.name = "other_tool" => fc.args = "valid" }

\* Batches of 1..MaxBatch function calls, each call with its own id.
Batches ==
    UNION { { b \in [1..k -> FunctionCalls] :
                \A i, j \in 1..k : i # j => b[i].id # b[j].id } :
            k \in 1..MaxBatch }

\* A message carries an audio payload, a tool_call, both, or neither (text).
Messages == [audio : BOOLEAN, calls : Batches \cup {<<>>}]

NoMsg == [audio |-> FALSE, calls |-> <<>>]

\* Outcomes of the POST in call_service: status 200, another status, or an
\* exception raised by the HTTP client (host unreachable, timeout).
PostOutcomes == {"200", "500", "raise"}

----------------------------------------------------------------------------
(* ha.py call_service and gemini.py _execute_control_home_assistant         *)

\* call_service up to the POST: the pairs it returns without any request.
call_service_local(args) ==
    IF ~settings.ha_configured
    THEN [ok |-> FALSE, msg |-> "Home Assistant token/URL not configured"]
    ELSE IF args = "missing"
    THEN [ok |-> FALSE, msg |-> "domain/service missing"]
    ELSE [ok |-> TRUE, msg |-> "POST"]

\* call_service after the POST answered with `status`.
call_service_http(status) ==
    IF status = "200" THEN [ok |-> TRUE, msg |-> "ok"]
    ELSE [ok |-> FALSE, msg |-> "HTTP 500: body"]

\* Whether _execute_control_home_assistant reaches the POST.
NeedsPost(fc) ==
    /\ fc.args # "nomap"
    /\ call_service_local(fc.args).msg = "POST"

\* _execute_control_home_assistant when no POST is made.
execute_local(fc) ==
    IF fc.args = "nomap"
    THEN [ok |-> FALSE, msg |-> "Invalid tool args (expected object)"]
    ELSE call_service_local(fc.args)

\* json.loads on the texts a service_data_json argument can hold: objects
\* whose values are strings or numbers, arrays of at most one such value,
\* strings and numbers, with blanks between the tokens.  A JSON value is
\* [t, v]: its type and its characters.
Quote == "\""

RECURSIVE SkipWs(_, _)
SkipWs(str, i) ==
    IF i <= Len(str) /\ str[i] = " " THEN SkipWs(str, i + 1) ELSE i

IsDigit(c) == \E d \in 1..10 : DigitChars[d] = c

\* The index of the closing quote at or after i, 0 if there is none.
RECURSIVE StringEnd(_, _)
StringEnd(str, i) ==
    IF i > Len(str) THEN 0
    ELSE IF str[i] = Quote THEN i
    ELSE StringEnd(str, i + 1)

\* The index after the digits that start at i.
RECURSIVE DigitsEnd(_, _)
DigitsEnd(str, i) ==
    IF i <= Len(str) /\ IsDigit(str[i]) THEN DigitsEnd(str, i + 1) ELSE i

EmptyMap == [k \in {} |-> <<>>]

ParseError == [ok |-> FALSE, mapping |-> FALSE, map |-> EmptyMap,
               val |-> [t |-> "none", v |-> <<>>], next |-> 0]

\* A string or a number at i.
ParseScalar(str, i) ==
    IF i > Len(str) THEN ParseError
    ELSE IF str[i] = Quote
    THEN IF StringEnd(str, i + 1) = 0 THEN ParseError
         ELSE [ok |-> TRUE, mapping |-> FALSE, map |-> EmptyMap,
               val |-> [t |-> "str",
                        v |-> SubSeq(str, i + 1, StringEnd(str, i + 1) - 1)],
               next |-> StringEnd(str, i + 1) + 1]
    ELSE IF IsDigit(str[i])
    THEN [ok |-> TRUE, mapping |-> FALSE, map |-> EmptyMap,
          val |-> [t |-> "num", v |-> SubSeq(str, i, DigitsEnd(str, i) - 1)],
          next |-> DigitsEnd(str, i)]
    ELSE ParseError

\* dict.update: the keys of extra are added to data or replace its values.
update(data, extra) ==
    [k \in DOMAIN data \cup DOMAIN extra |->
        IF k \in DOMAIN extra THEN extra[k] ELSE data[k]]

\* The members of an object from i on, acc being the members read so far.
RECURSIVE ParseMembers(_, _, _)
ParseMembers(str, i, acc) ==
    LET key   == ParseScalar(str, SkipWs(str, i))
        colon == SkipWs(str, key.next)
        val   == ParseScalar(str, SkipWs(str, colon + 1))
        after == SkipWs(str, val.next)
        map   == update(acc, [k \in {key.val.v} |-> val.val])
    IN  IF ~key.ok \/ key.val.t # "str" THEN ParseError
        ELSE IF colon > Len(str) \/ str[colon] # ":" THEN ParseError
        ELSE IF ~val.ok \/ after > Len(str) THEN ParseError
        ELSE IF str[after] = "}"
        THEN [ok |-> TRUE, mapping |-> TRUE, map |-> map,
              val |-> [t |-> "obj", v |-> <<>>], next |-> after + 1]
        ELSE IF str[after] = "," THEN ParseMembers(str, after + 1, map)
        ELSE ParseError

ParseValue(str, i) ==
    LET first == SkipWs(str, i)
        inner == SkipWs(str, first + 1)
        elem  == ParseScalar(str, inner)
        close == SkipWs(str, elem.next)
        list  == [ok |-> TRUE, mapping |-> FALSE, map |-> EmptyMap,
                  val |-> [t |-> "list", v |-> <<>>], next |-> 0]
    IN  IF first > Len(str) THEN ParseError
        ELSE IF str[first] = "{"
        THEN IF inner <= Len(str) /\ str[inner] = "}"
             THEN [ok |-> TRUE, mapping |-> TRUE, map |-> EmptyMap,
                   val |-> [t |-> "obj", v |-> <<>>], next |-> inner + 1]
             ELSE ParseMembers(str, inner, EmptyMap)
        ELSE IF str[first] = "["
        THEN IF inner <= Len(str) /\ str[inner] = "]"
             THEN [list EXCEPT !.next = inner + 1]
             ELSE IF elem.ok /\ close <= Len(str) /\ str[close] = "]"
             THEN [list EXCEPT !.next = close + 1]
             ELSE ParseError
        ELSE ParseScalar(str, first)

\* json.loads(str): the value, or ok = FALSE for json.JSONDecodeError.
json_loads(str) ==
    LET r == ParseValue(str, 1)
    IN  IF r.ok /\ SkipWs(str, r.next) = Len(str) + 1 THEN r ELSE ParseError

\* args.get(key, "") followed by str(...).strip()
ArgText(arg) == strip(IF arg.set THEN arg.v ELSE <<>>)

EntityIdKey == <<"e", "n", "t", "i", "t", "y", "_", "i", "d">>

\* The data mapping of _execute_control_home_assistant, the JSON text
\* being merged without any test of its keys' presence in data.
ServiceData(args) ==
    LET entity_id == ArgText(args.entity_id)
        data      == IF entity_id # <<>>
                     THEN [k \in {EntityIdKey} |-> [t |-> "str", v |-> entity_id]]
                     ELSE EmptyMap
        text      == args.service_data_json
        extra     == json_loads(text.v)
    IN  IF text.set /\ strip(text.v) # <<>> /\ extra.ok /\ extra.mapping
        THEN update(data, extra.map)
        ELSE data

\* The argument class of a function call's args (see ArgKinds).
ArgKindOf(args) ==
    IF ~args.mapping THEN "nomap"
    ELSE IF ArgText(args.domain) = <<>> \/ ArgText(args.service) = <<>>
    THEN "missing"
    ELSE "valid"

NoResult == [ok |-> FALSE, msg |-> "none"]

ExecuteStartAllowedOnly(args) ==
    LET call == [domain  |-> ArgText(args.domain),
                 service |-> ArgText(args.service),
                 data    |-> ServiceData(args)]
        r    == call_service_local(ArgKindOf(args))
        ok   == \E i \in DOMAIN settings.allowed_domains :
                    settings.allowed_domains[i] = call.domain
    IN  IF ~args.mapping
        THEN [pc |-> "done", args |-> args, calls |-> <<>>, posts |-> <<>>,
              result |-> [ok |-> FALSE,
                          msg |-> "Invalid tool args (expected object)"]]
        ELSE IF r.msg = "POST" /\ ok
        THEN [pc |-> "post", args |-> args, calls |-> <<call>>,
              posts |-> <<[domain  |-> strip(call.domain),
                           service |-> strip(call.service),
                           payload |-> call.data]>>,
              result |-> NoResult]
        ELSE [pc |-> "done", args |-> args, calls |-> <<call>>,
              posts |-> <<>>, result |-> [ok |-> FALSE, msg |-> "not allowed"]]

\* _execute_control_home_assistant(args) up to its first suspension: the
\* calls of call_service it has made and the POST it waits for, or its
\* result.
ExecuteStart(args) ==
    LET call == [domain  |-> ArgText(args.domain),
                 service |-> ArgText(args.service),
                 data    |-> ServiceData(args)]
        r    == call_service_local(ArgKindOf(args))
    IN  IF ~args.mapping
        THEN [pc |-> "done", args |-> args, calls |-> <<>>, posts |-> <<>>,
              result |-> [ok |-> FALSE,
                          msg |-> "Invalid tool args (expected object)"]]
        ELSE IF r.msg = "POST"
        THEN [pc |-> "post", args |-> args, calls |-> <<call>>,
              posts |-> <<[domain  |-> strip(call.domain),
                           service |-> strip(call.service),
                           payload |-> call.data]>>,
              result |-> NoResult]
        ELSE [pc |-> "done", args |-> args, calls |-> <<call>>,
              posts |-> <<>>, result |-> r]

UnknownToolAnsweredOk(fc) ==
    [id |-> fc.id, name |-> fc.name, ok |-> TRUE, error |-> "Unknown tool"]

UnknownToolResponse(fc) ==
    [id |-> fc.id, name |-> fc.name, ok |-> FALSE, error |-> "Unknown tool"]

ControlResponse(fc, r) ==
    [id |-> fc.id, name |-> "control_home_assistant", ok |-> r.ok,
     result |-> r.msg]

\* The for loop of _handle_tool_calls from call i on, up to its next
\* suspension point (a POST) or its end.
RECURSIVE ToolScan(_, _, _)
ToolScan(calls, i, resp) ==
    IF i > Len(calls)
    THEN [idx |-> i, responses |-> resp, post |-> FALSE]
    ELSE IF calls[i].name # "control_home_assistant"
    THEN ToolScan(calls, i + 1, Append(resp, UnknownToolResponse(calls[i])))
    ELSE IF NeedsPost(calls[i])
    THEN [idx |-> i, responses |-> resp, post |-> TRUE]
    ELSE ToolScan(calls, i + 1,
                  Append(resp, ControlResponse(calls[i], execute_local(calls[i]))))

----------------------------------------------------------------------------
(* GeminiLiveController._recv_loop: one step per suspension point.          *)
(*   "turn"      sub-task created, or at the top of `while True`            *)
(*   "msg"       awaiting the next message of the turn                      *)
(*   "cb_start"  awaiting on_start()                                        *)
(*   "cb_chunk"  awaiting on_chunk()                                        *)
(*   "tool_post" awaiting call_service's POST for call fc_idx               *)
(*   "cb_stop"   awaiting on_stop() after the turn completed                *)
(*   "done"      left the loop (ConnectionClosedOK)                         *)
(*   "failed"    ended by an exception                                      *)

\* Top of the while loop: session.receive(), reset barge-in, first await.
BeginTurn ==
    /\ barge_in' = FALSE
    /\ turn' = turn + 1
    /\ recv_pc' = "msg"

\* `await session.send_tool_response(function_responses=responses)`.
\* On a closed session the send raises inside the try block.
SubmitResponses(resp) ==
    IF session = "open"
    THEN /\ tool_replies' = Append(tool_replies,
                                   [req |-> Len(tool_requests'),
                                    function_responses |-> resp])
         /\ recv_pc' = "msg"
         /\ UNCHANGED recv_exc
    ELSE /\ recv_pc' = "done"
         /\ recv_exc' = "ConnectionClosedOK"
         /\ UNCHANGED tool_replies

\* _handle_tool_calls(session, m.calls) from call i on.
HandleToolCalls(m, i, resp) ==
    LET sc == ToolScan(m.calls, i, resp)
    IN  IF sc.post
        THEN /\ recv_pc' = "tool_post"
             /\ fc_idx' = sc.idx
             /\ responses' = sc.responses
             /\ recv_msg' = m
             /\ UNCHANGED <<tool_replies, recv_exc>>
        ELSE /\ SubmitResponses(sc.responses)
             /\ fc_idx' = 0
             /\ responses' = <<>>
             /\ recv_msg' = NoMsg

\* The rest of the loop body after the audio part of message m.
AfterAudio(m) ==
    IF m.calls # <<>>
    THEN HandleToolCalls(m, 1, <<>>)
    ELSE /\ recv_pc' = "msg"
         /\ recv_msg' = NoMsg
         /\ UNCHANGED <<fc_idx, responses, tool_replies, recv_exc>>

ModelAudioOut ==
    resample_pcm16(ModelAudioSamples, settings.gemini_output_sample_rate_hz,
                   settings.output_sample_rate_hz)

RecvTurnStart ==
    /\ recv_pc = "turn"
    /\ BeginTurn
    /\ Writes({"barge_in"}, "receive-loop")
    /\ UNCHANGED <<settings, barge_log, flt, pcm, boot, svc, handoff, context, hpc, inputs_left, task_vars, input_vars,
                   output_stream_open, session, send_vars, recv_msg, recv_exc, fc_idx,
                   responses, fails_left, out, tool_vars>>

\* A message arrives.  Messages buffered before the session was closed
\* locally are still delivered.
RecvMessage(m) ==
    /\ recv_pc = "msg"
    /\ session \in {"open", "closed_local"}
    /\ inputs_left > 0
    /\ inputs_left' = inputs_left - 1
    /\ m.calls # <<>> => Len(tool_requests) < MaxToolMsgs
    /\ tool_requests' =
         IF m.calls # <<>>
         THEN Append(tool_requests,
                     [calls |-> m.calls, audio |-> m.audio, barge |-> barge_in])
         ELSE tool_requests
    /\ IF m.audio
       THEN IF barge_in
            THEN \* `continue`: the rest of the loop body is skipped
                 /\ UNCHANGED <<recv_pc, recv_msg, recv_exc, fc_idx, responses, out,
                                tool_replies>>
            ELSE /\ recv_msg' = m
                 /\ IF ~output_stream_open
                    THEN /\ Invoke("start", settings.output_sample_rate_hz)
                         /\ recv_pc' = "cb_start"
                    ELSE /\ Invoke("chunk", ModelAudioOut)
                         /\ recv_pc' = "cb_chunk"
                 /\ UNCHANGED <<recv_exc, fc_idx, responses, tool_replies>>
       ELSE /\ AfterAudio(m)
            /\ UNCHANGED out
    /\ UNCHANGED <<settings, barge_log, flt, pcm, boot, svc, handoff, writers, context, hpc, task_vars, input_vars, barge_in,
                   output_stream_open, session, send_vars, turn, fails_left>>

\* A return from on_start() that also clears the barge-in flag.
RecvStartReturnClearsBargeIn ==
    /\ recv_pc = "cb_start"
    /\ output_stream_open' = TRUE
    /\ barge_in' = FALSE
    /\ Invoke("chunk", ModelAudioOut)
    /\ recv_pc' = "cb_chunk"
    /\ Writes({"output_stream_open", "barge_in"}, "receive-loop")
    /\ UNCHANGED <<settings, barge_log, flt, pcm, boot, svc, handoff, context, hpc, inputs_left, task_vars,
                   input_vars, session, send_vars, recv_msg, recv_exc,
                   fc_idx, responses, turn, fails_left, tool_vars>>

\* A return from on_start() that drops the payload that opened the stream.
RecvStartReturnNoChunk ==
    /\ recv_pc = "cb_start"
    /\ output_stream_open' = TRUE
    /\ UNCHANGED tool_requests
    /\ AfterAudio(recv_msg)
    /\ Writes({"output_stream_open"}, "receive-loop")
    /\ UNCHANGED <<settings, barge_log, flt, pcm, boot, svc, handoff, context, hpc, inputs_left, task_vars,
                   input_vars, barge_in, session, send_vars, turn, fails_left, out>>

\* on_start() returned: mark the stream open, resample, call on_chunk().
RecvStartReturn ==
    /\ recv_pc = "cb_start"
    /\ output_stream_open' = TRUE
    /\ Invoke("chunk", ModelAudioOut)
    /\ recv_pc' = "cb_chunk"
    /\ Writes({"output_stream_open"}, "receive-loop")
    /\ UNCHANGED <<settings, barge_log, flt, pcm, boot, svc, handoff, context, hpc, inputs_left, task_vars, input_vars, barge_in,
                   session, send_vars, recv_msg, recv_exc, fc_idx, responses, turn,
                   fails_left, tool_vars>>

\* on_chunk() returned.
RecvChunkReturn ==
    /\ recv_pc = "cb_chunk"
    /\ UNCHANGED tool_requests
    /\ AfterAudio(recv_msg)
    /\ UNCHANGED <<settings, barge_log, flt, pcm, boot, svc, handoff, writers, context, hpc, inputs_left, task_vars, input_vars, barge_in,
                   output_stream_open, session, send_vars, turn, fails_left, out>>

\* The POST of call fc_idx finished.
RecvToolPost(outcome) ==
    /\ recv_pc = "tool_post"
    /\ UNCHANGED tool_requests
    /\ IF outcome = "raise"
       THEN \* propagates through _handle_tool_calls to `except Exception`,
            \* which re-raises it
            /\ recv_pc' = "failed"
            /\ recv_exc' = "ClientError"
            /\ fc_idx' = 0
            /\ responses' = <<>>
            /\ recv_msg' = NoMsg
            /\ UNCHANGED tool_replies
       ELSE HandleToolCalls(recv_msg, fc_idx + 1,
                Append(responses,
                       ControlResponse(recv_msg.calls[fc_idx],
                                       call_service_http(outcome))))
    /\ UNCHANGED <<settings, barge_log, flt, pcm, boot, svc, handoff, writers, context, hpc, inputs_left, task_vars, input_vars, barge_in,
                   output_stream_open, session, send_vars, turn, fails_left, out>>

\* The turn iterator ends.
RecvTurnComplete ==
    /\ recv_pc = "msg"
    /\ session \in {"open", "closed_local"}
    /\ inputs_left > 0
    /\ inputs_left' = inputs_left - 1
    /\ IF output_stream_open
       THEN /\ Invoke("stop", 0)
            /\ recv_pc' = "cb_stop"
            /\ UNCHANGED <<barge_in, turn>>
       ELSE /\ BeginTurn
            /\ UNCHANGED out
    /\ Writes(IF output_stream_open THEN {} ELSE {"barge_in"}, "receive-loop")
    /\ UNCHANGED <<settings, barge_log, flt, pcm, boot, svc, handoff, context, hpc, task_vars, input_vars,
                   output_stream_open, session, send_vars, recv_msg, recv_exc, fc_idx,
                   responses, fails_left, tool_vars>>

\* on_stop() returned: clear the flag and start the next turn.
RecvStopReturn ==
    /\ recv_pc = "cb_stop"
    /\ output_stream_open' = FALSE
    /\ BeginTurn
    /\ Writes({"output_stream_open", "barge_in"}, "receive-loop")
    /\ UNCHANGED <<settings, barge_log, flt, pcm, boot, svc, handoff, context, hpc, inputs_left, task_vars, input_vars, session,
                   send_vars, recv_msg, recv_exc, fc_idx, responses, fails_left, out, tool_vars>>

\* The remote end closes the session gracefully: the iterator raises an
\* error named ConnectionClosedOK and the loop is left by `break`.
RecvClosedOK ==
    /\ recv_pc = "msg"
    /\ session = "open"
    /\ session' = "closed_ok"
    /\ recv_pc' = "done"
    /\ recv_exc' = "ConnectionClosedOK"
    /\ UNCHANGED <<settings, barge_log, flt, pcm, boot, svc, handoff, writers, context, hpc, inputs_left, task_vars, input_vars, barge_in,
                   output_stream_open, send_vars, recv_msg, fc_idx, responses,
                   turn, fails_left, out, tool_vars>>

\* The session fails: any other exception is re-raised and ends the sub-task.
RecvError ==
    /\ recv_pc = "msg"
    /\ session = "open"
    /\ session' = "error"
    /\ recv_pc' = "failed"
    /\ recv_exc' = "ConnectionClosedError"
    /\ UNCHANGED <<settings, barge_log, flt, pcm, boot, svc, handoff, writers, context, hpc, inputs_left, task_vars, input_vars, barge_in,
                   output_stream_open, send_vars, recv_msg, fc_idx, responses,
                   turn, fails_left, out, tool_vars>>

\* After the local close the iterator raises once its buffer is empty.
RecvAfterClose ==
    /\ recv_pc = "msg"
    /\ session = "closed_local"
    /\ recv_pc' = "done"
    /\ recv_exc' = "ConnectionClosedOK"
    /\ UNCHANGED <<settings, barge_log, flt, pcm, boot, svc, handoff, writers, context, hpc, inputs_left, task_vars, input_vars, barge_in,
                   output_stream_open, session, send_vars, recv_msg, fc_idx,
                   responses, turn, fails_left, out, tool_vars>>

----------------------------------------------------------------------------
(* Specifications *)

\* No run of filter_entities.
NoFilterRun == [pc |-> "none"]

\* Start-up is over: Settings is loaded.
Booted == [pc |-> "loaded"]

\* No call of _execute_control_home_assistant.
NoServiceCall == [pc |-> "none"]

\* No call of an audio.py function.
NoAudioCall == [pc |-> "none"]

InitWith(s, inputs) ==
    /\ settings = s
    /\ hpc = "serving"
    /\ inputs_left = inputs
    /\ task = 0
    /\ tasks = <<>>
    /\ must_cancel = FALSE
    /\ stop_evt = FALSE
    /\ input_audio_queue = <<>>
    /\ barge_in = FALSE
    /\ output_stream_open = FALSE
    /\ session = "none"
    /\ send_pc = "none"
    /\ send_cur = NoChunk
    /\ recv_pc = "none"
    /\ recv_msg = NoMsg
    /\ recv_exc = "none"
    /\ fc_idx = 0
    /\ responses = <<>>
    /\ fails_left = MaxConnectFailures
    /\ next_id = 0
    /\ sent = <<>>
    /\ out = <<>>
    /\ turn = 0
    /\ tool_requests = <<>>
    /\ tool_replies = <<>>
    /\ barge_log = [turn |-> 0, kind |-> "none"]
    /\ context = NoContext
    /\ writers = [f \in SharedFlags |-> {}]
    /\ handoff = [dropped |-> {}, passed |-> <<>>]

\* A Home Assistant with no entity: GET /api/states answers 200 and [].
NoStates == HttpResponse(200, TRUE, <<>>)

\* The edge client and the remote model of Spec: every edge event, model
\* messages without tool calls.
Init == InitWith(ShortTailSettings, MaxInputs) /\ flt = NoFilterRun /\ pcm = NoAudioCall /\ boot = Booted /\ svc = NoServiceCall

PlainMessages == { m \in Messages : m.calls = <<>> }

EdgeNext ==
    \/ HandleDescribe
    \/ HandleAudioStart
    \/ \E rate \in EdgeRates : HandleAudioChunk(rate)
    \/ HandleAudioStop
    \/ HandleUnknownEvent
    \/ EdgeDisconnect
    \/ StopFinish

RunNext ==
    \/ \E i \in DOMAIN tasks : RunStart(i)
    \/ \E i \in DOMAIN tasks : RunContext(i, NoStates)
    \/ \E i \in DOMAIN tasks : RunConnectOk(i)
    \/ \E i \in DOMAIN tasks : RunConnectFail(i)
    \/ \E i \in DOMAIN tasks : RunCancelEarly(i)
    \/ \E i \in DOMAIN tasks : RunCancelConnect(i)
    \/ \E i \in DOMAIN tasks : RunCancelWait(i)
    \/ \E i \in DOMAIN tasks : RunClosed(i)
    \/ \E i \in DOMAIN tasks : RunFinallyDone(i)

SendNext ==
    \/ SendLoopGet
    \/ SendLoopSend

RecvNext ==
    \/ RecvTurnStart
    \/ \E m \in PlainMessages : RecvMessage(m)
    \/ RecvStartReturn
    \/ RecvChunkReturn
    \/ RecvTurnComplete
    \/ RecvStopReturn
    \/ RecvClosedOK
    \/ RecvError
    \/ RecvAfterClose

Next == EdgeNext \/ RunNext \/ SendNext \/ RecvNext

Spec == Init /\ [][Next]_vars

\* The event loop runs every task that is ready: a step of the session
\* task, of the send loop, of stop(), and the receive loop's own steps (the
\* start of a turn, the return of a callback) are taken when they stay
\* possible.  Nothing is assumed of the edge client and the remote model.
Fairness ==
    /\ WF_vars(RunNext)
    /\ WF_vars(SendNext)
    /\ WF_vars(StopFinish)
    /\ WF_vars(RecvTurnStart \/ RecvStartReturn \/ RecvChunkReturn
                   \/ RecvStopReturn)

FairSpec == Init /\ [][Next]_vars /\ Fairness

\* The client and the model of Spec with one more event: a model that
\* begins a second turn while the connection is torn down.
InitTeardown ==
    /\ InitWith(ShortTailSettings, MaxTeardownInputs)
    /\ flt = NoFilterRun /\ pcm = NoAudioCall /\ boot = Booted /\ svc = NoServiceCall

SpecTeardown == InitTeardown /\ [][Next]_vars

\* The controller driven by the edge handler and, method by method, by
\* another user of its interface.
NextApi == NotifyBargeIn \/ Next

SpecApi == Init /\ [][NextApi]_vars

\* Controllers with and without an API key, every edge event, model
\* messages with and without tool calls.
InitKey ==
    /\ \E s \in {ShortTailSettings, NoKeySettings} : InitWith(s, MaxInputs)
    /\ flt = NoFilterRun /\ pcm = NoAudioCall /\ boot = Booted /\ svc = NoServiceCall

NextKey ==
    \/ EdgeNext
    \/ RunNext
    \/ SendNext
    \/ RecvTurnStart
    \/ \E m \in Messages : RecvMessage(m)
    \/ RecvStartReturn
    \/ RecvChunkReturn
    \/ \E outcome \in PostOutcomes : RecvToolPost(outcome)
    \/ RecvTurnComplete
    \/ RecvStopReturn
    \/ RecvClosedOK
    \/ RecvError
    \/ RecvAfterClose

SpecKey == InitKey /\ [][NextKey]_vars

\* The input side with the default settings: a client that streams audio
\* (audio-chunk, audio-stop) to a remote model that stays silent.
InitQueue == InitWith(DefaultSettings, MaxQueueEvents) /\ flt = NoFilterRun /\ pcm = NoAudioCall /\ boot = Booted /\ svc = NoServiceCall

NextQueue ==
    \/ HandleAudioChunk(settings.input_sample_rate_hz)
    \/ HandleAudioStop
    \/ \E i \in DOMAIN tasks : RunStart(i)
    \/ \E i \in DOMAIN tasks : RunContext(i, NoStates)
    \/ \E i \in DOMAIN tasks : RunConnectOk(i)
    \/ \E i \in DOMAIN tasks : RunConnectFail(i)
    \/ SendLoopGet
    \/ SendLoopSend
    \/ RecvTurnStart

SpecQueue == InitQueue /\ [][NextQueue]_vars

\* The input side under overflow, stop and restart: a client that streams
\* audio with a silence tail of a whole queue (50 chunks) and disconnects, a remote model that stays silent or closes
\* the session, connection attempts that fail.
FlowSettings == [DefaultSettings EXCEPT !.silence_tail_ms = 3200]

InitFlow ==
    /\ InitWith(FlowSettings, MaxFlowEvents)
    /\ flt = NoFilterRun /\ pcm = NoAudioCall /\ boot = Booted /\ svc = NoServiceCall

NextFlow ==
    \/ HandleAudioChunk(settings.input_sample_rate_hz)
    \/ HandleAudioStop
    \/ EdgeDisconnect
    \/ StopFinish
    \/ \E i \in DOMAIN tasks : RunStart(i)
    \/ \E i \in DOMAIN tasks : RunContext(i, NoStates)
    \/ \E i \in DOMAIN tasks : RunConnectOk(i)
    \/ \E i \in DOMAIN tasks : RunConnectFail(i)
    \/ \E i \in DOMAIN tasks : RunCancelEarly(i)
    \/ \E i \in DOMAIN tasks : RunCancelConnect(i)
    \/ \E i \in DOMAIN tasks : RunCancelWait(i)
    \/ \E i \in DOMAIN tasks : RunClosed(i)
    \/ SendLoopGet
    \/ SendLoopSend
    \/ RecvTurnStart
    \/ RecvClosedOK
    \/ RecvAfterClose

SpecFlow == InitFlow /\ [][NextFlow]_vars

\* Tool calls: a client that only opens the dialog (audio-start) and a
\* remote model whose messages carry tool calls, with and without a Home
\* Assistant token.
InitTools ==
    /\ \E s \in {ShortTailSettings, NoTokenSettings} : InitWith(s, MaxInputs)
    /\ flt = NoFilterRun /\ pcm = NoAudioCall /\ boot = Booted /\ svc = NoServiceCall

NextTools ==
    \/ HandleAudioStart
    \/ EdgeDisconnect
    \/ StopFinish
    \/ RunNext
    \/ RecvTurnStart
    \/ \E m \in Messages : RecvMessage(m)
    \/ RecvStartReturn
    \/ RecvChunkReturn
    \/ \E outcome \in PostOutcomes : RecvToolPost(outcome)
    \/ RecvTurnComplete
    \/ RecvStopReturn
    \/ RecvClosedOK
    \/ RecvError
    \/ RecvAfterClose

SpecTools == InitTools /\ [][NextTools]_vars

\* Barge-in: a client that sends audio-start and audio-chunk events at the
\* configured input rate while the remote model speaks; the session stays up.
InitBarge == InitWith(ShortTailSettings, MaxBargeInputs) /\ flt = NoFilterRun /\ pcm = NoAudioCall /\ boot = Booted /\ svc = NoServiceCall

NextBarge ==
    \/ HandleAudioStart
    \/ HandleAudioChunk(settings.input_sample_rate_hz)
    \/ \E i \in DOMAIN tasks : RunStart(i)
    \/ \E i \in DOMAIN tasks : RunContext(i, NoStates)
    \/ \E i \in DOMAIN tasks : RunConnectOk(i)
    \/ RecvTurnStart
    \/ \E m \in PlainMessages : RecvMessage(m)
    \/ RecvStartReturn
    \/ RecvChunkReturn
    \/ RecvTurnComplete
    \/ RecvStopReturn

SpecBarge == InitBarge /\ [][NextBarge]_vars

\* The entity filter: filter_entities applied to a state list of Home
\* Assistant and to a configuration, then applied again to the entries kept.
EntityIds ==
    { <<"a", ".", "a">>, <<"a", ".", "b">>, <<"b", ".", "a">>,
      <<" ", "a", ".", "b", " ">>, <<"a", "b">>, <<" ">>, <<>> }

\* An entry of /api/states; entity_id "" stands for an entry without one.
StateEntries ==
    { [entity_id     |-> e,
       friendly_name |-> IF e = <<"a", ".", "a">> THEN "Lamp" ELSE "",
       state         |-> "on"] : e \in EntityIds }

StateLists == UNION { [1..n -> StateEntries] : n \in 0..MaxStates }

DomainLists == { <<>>, << <<"a">> >>, << <<"b">>, <<"a">> >>, << <<>> >> }

Allowlists ==
    { <<>>, << <<"a", ".", "*">> >>, << <<"?", ".", "a">> >>,
      << <<"a", ".", "a">>, <<"b", ".", "a">> >> }

Blocklists ==
    { <<>>, << <<"a", ".", "b">> >>, << <<"*", "a">> >>,
      << <<"b", "*">>, <<"a", ".", "b">> >> }

FilterInputs ==
    [ pc              : {"input"},
      states          : StateLists,
      allowed_domains : DomainLists,
      allowlist       : Allowlists,
      blocklist       : Blocklists,
      max_entities    : 0..MaxEntities ]

ctl_vars == <<settings, hpc, inputs_left, task_vars, input_vars, barge_in,
              output_stream_open, session, send_vars, recv_vars, fails_left,
              out, tool_vars, barge_log, context, writers, handoff>>

\* The controller's state and the settings it was built with.
run_vars == <<ctl_vars, boot, svc>>

InitFilter ==
    InitWith(DefaultSettings, 0) /\ flt \in FilterInputs /\ pcm = NoAudioCall /\ boot = Booted /\ svc = NoServiceCall

\* filter_entities(states, ...)
FilterApply ==
    /\ flt.pc = "input"
    /\ flt' = [ pc |-> "once",
                states          |-> flt.states,
                allowed_domains |-> flt.allowed_domains,
                allowlist       |-> flt.allowlist,
                blocklist       |-> flt.blocklist,
                max_entities    |-> flt.max_entities,
                kept   |-> Kept(flt.states, flt.allowed_domains,
                                flt.allowlist, flt.blocklist,
                                flt.max_entities),
                result |-> filter_entities(flt.states, flt.allowed_domains,
                                           flt.allowlist, flt.blocklist,
                                           flt.max_entities) ]
    /\ UNCHANGED <<run_vars, pcm>>

\* filter_entities applied to the entries the first call kept.
FilterReapply ==
    /\ flt.pc = "once"
    /\ flt' = [ flt EXCEPT
                  !.pc = "twice",
                  !.kept = Kept([k \in 1..Len(flt.kept) |->
                                    flt.states[flt.kept[k]]],
                                flt.allowed_domains, flt.allowlist,
                                flt.blocklist, flt.max_entities),
                  !.result = filter_entities(
                                 [k \in 1..Len(flt.kept) |->
                                     flt.states[flt.kept[k]]],
                                 flt.allowed_domains, flt.allowlist,
                                 flt.blocklist, flt.max_entities) ]
    /\ UNCHANGED <<run_vars, pcm>>

NextFilter == FilterApply \/ FilterReapply

SpecFilter == InitFilter /\ [][NextFilter]_vars

\* Context injection: a client that opens the dialog (audio-start) against
\* a Home Assistant whose GET /api/states fails in every way or answers a
\* state list, under several filter configurations.
ContextSettings ==
    { [ShortTailSettings EXCEPT !.allowed_domains = d,
                                !.entity_blocklist = b,
                                !.max_context_entities = n] :
        d \in {<<>>, << <<"a">> >>},
        b \in {<<>>, << <<"a", ".", "b">> >>},
        n \in {1, 200} }

HAResponses ==
    { TransportError, HttpResponse(401, FALSE, <<>>),
      HttpResponse(500, FALSE, <<>>), HttpResponse(200, FALSE, <<>>) }
    \cup { HttpResponse(200, TRUE, b) :
              b \in UNION { [1..n -> StateEntries] : n \in 0..MaxContextStates } }

InitContext ==
    /\ \E s \in ContextSettings : InitWith(s, MaxInputs)
    /\ flt = NoFilterRun /\ pcm = NoAudioCall /\ boot = Booted /\ svc = NoServiceCall

NextContext ==
    \/ HandleAudioStart
    \/ \E i \in DOMAIN tasks : RunStart(i)
    \/ \E i \in DOMAIN tasks : \E r \in HAResponses : RunContext(i, r)
    \/ \E i \in DOMAIN tasks : RunConnectOk(i)
    \/ \E i \in DOMAIN tasks : RunConnectFail(i)
    \/ RecvTurnStart

SpecContext == InitContext /\ [][NextContext]_vars

\* One dialog with the default settings: the client sends audio-start, then
\* audio chunks at the configured input rate, then audio-stop, and nothing
\* after it; the session connects and the remote model stays silent.
SilenceAccepted ==
    \/ \E j \in DOMAIN sent : sent[j].kind = "silence"
    \/ \E j \in DOMAIN input_audio_queue : input_audio_queue[j].kind = "silence"
    \/ send_cur.kind = "silence"

InitDialog ==
    InitWith(DefaultSettings, MaxDialogEvents)
        /\ flt = NoFilterRun /\ pcm = NoAudioCall /\ boot = Booted /\ svc = NoServiceCall

NextDialog ==
    \/ task = 0 /\ HandleAudioStart
    \/ task # 0 /\ ~SilenceAccepted
           /\ HandleAudioChunk(settings.input_sample_rate_hz)
    \/ task # 0 /\ ~SilenceAccepted /\ HandleAudioStop
    \/ \E i \in DOMAIN tasks : RunStart(i)
    \/ \E i \in DOMAIN tasks : RunContext(i, NoStates)
    \/ \E i \in DOMAIN tasks : RunConnectOk(i)
    \/ SendLoopGet
    \/ SendLoopSend
    \/ RecvTurnStart

SpecDialog == InitDialog /\ [][NextDialog]_vars

\* The model greeting: the client opens the session with one audio chunk
\* (barge_in is never set), the remote model emits one turn of audio
\* payloads and completes it; the output rate is 16000 or 24000 Hz.
GreetingSettings ==
    { [DefaultSettings EXCEPT !.output_sample_rate_hz = r] : r \in EdgeRates }

AudioMessage == [audio |-> TRUE, calls |-> <<>>]

InitGreeting ==
    /\ \E s \in GreetingSettings : InitWith(s, MaxGreetingEvents)
    /\ flt = NoFilterRun /\ pcm = NoAudioCall /\ boot = Booted /\ svc = NoServiceCall

NextGreeting ==
    \/ task = 0 /\ HandleAudioChunk(settings.input_sample_rate_hz)
    \/ \E i \in DOMAIN tasks : RunStart(i)
    \/ \E i \in DOMAIN tasks : RunContext(i, NoStates)
    \/ \E i \in DOMAIN tasks : RunConnectOk(i)
    \/ SendLoopGet
    \/ SendLoopSend
    \/ RecvTurnStart
    \/ turn = 1 /\ RecvMessage(AudioMessage)
    \/ RecvStartReturn
    \/ RecvChunkReturn
    \/ turn = 1 /\ RecvTurnComplete
    \/ RecvStopReturn

SpecGreeting == InitGreeting /\ [][NextGreeting]_vars

\* The audio codec: one call of iter_silence_chunks or of resample_pcm16 on
\* arguments drawn from bounded sets.
SilenceRates == {16000, 24000}
ChunkSizes == {160, 1024}
ResampleRates == {8000, 16000, 24000}
SampleValues == {0, 1}

Signals ==
    { [i \in 1..n |-> 0] : n \in 0..MaxSignalLen }
    \cup UNION { [1..n -> SampleValues] : n \in 0..MaxToneLen }

AudioInputs ==
    [ pc                 : {"input"},
      fn                 : {"iter_silence_chunks"},
      duration_ms        : (0 - 1)..MaxDurationMs,
      sample_rate_hz     : SilenceRates,
      chunk_size_samples : ChunkSizes ]
    \cup
    [ pc          : {"input"},
      fn          : {"resample_pcm16"},
      x           : Signals,
      src_rate_hz : ResampleRates,
      dst_rate_hz : ResampleRates ]

InitAudio ==
    /\ InitWith(DefaultSettings, 0)
    /\ flt = NoFilterRun /\ pcm \in AudioInputs /\ boot = Booted /\ svc = NoServiceCall

\* list(iter_silence_chunks(duration_ms, sample_rate_hz, chunk_size_samples))
SilenceApply ==
    /\ pcm.pc = "input" /\ pcm.fn = "iter_silence_chunks"
    /\ pcm' = [ pc     |-> "done",
                fn     |-> pcm.fn,
                args   |-> pcm,
                result |-> iter_silence_chunks(pcm.duration_ms,
                                               pcm.sample_rate_hz,
                                               pcm.chunk_size_samples) ]
    /\ UNCHANGED <<run_vars, flt>>

\* resample_pcm16(x, src_rate_hz, dst_rate_hz)
ResampleApply ==
    /\ pcm.pc = "input" /\ pcm.fn = "resample_pcm16"
    /\ \E y \in ResampleOutputs(pcm.x, pcm.src_rate_hz, pcm.dst_rate_hz,
                                 SampleValues) :
           pcm' = [pc |-> "done", fn |-> pcm.fn, args |-> pcm, result |-> y]
    /\ UNCHANGED <<run_vars, flt>>

NextAudio == SilenceApply \/ ResampleApply

SpecAudio == InitAudio /\ [][NextAudio]_vars

\* Start-up: Settings is loaded from an environment and an options file
\* in which each key is absent, blank or set.
EnvValues ==
    [ HA_TOKEN             : {Unset, Val(<<>>), Val(<<" ">>), Val(<<"t">>)},
      SILENCE_TAIL_MS      : {Unset, Val(<<>>), Val(<<" ">>),
                              Val(<<"3", "0", "0">>), Val(<<"x">>)},
      MAX_CONTEXT_ENTITIES : {Unset, Val(<<"5">>)},
      ALLOWED_DOMAINS      : {Unset, Val(<<"a">>),
                              Val(<<"a", ",", " ", "b", ",">>)},
      ENTITY_BLOCKLIST     : {Unset, Val(<<"a", ".", "*">>)} ]

OptionValues ==
    [ ha_token             : {Unset, Val(<<"u">>)},
      silence_tail_ms      : {Unset, Val(100), Val(250)},
      max_context_entities : {Unset, Val(20)},
      allowed_domains      : {Unset, Val(<<>>), Val(<< <<"b">> >>)},
      entity_blocklist     : {Unset, Val(<< <<"b", ".", "*">> >>)} ]

InitConfig ==
    /\ InitWith(DefaultSettings, 0)
    /\ flt = NoFilterRun /\ pcm = NoAudioCall
    /\ boot \in [pc : {"start"}, env : EnvValues, options : OptionValues]
    /\ svc = NoServiceCall

\* settings = Settings.from_env_and_addon_options()
LoadSettings ==
    /\ boot.pc = "start"
    /\ settings' = from_env_and_addon_options(boot.env, boot.options)
    /\ boot' = [boot EXCEPT !.pc = "loaded"]
    /\ UNCHANGED <<hpc, inputs_left, task_vars, input_vars, barge_in,
                   output_stream_open, session, send_vars, recv_vars,
                   fails_left, out, tool_vars, barge_log, context, writers,
                   flt, pcm, svc, handoff>>

NextConfig == LoadSettings

SpecConfig == InitConfig /\ [][NextConfig]_vars

\* One call of _execute_control_home_assistant: the args of a function call
\* are no mapping, or a mapping in which each of domain, service, entity_id
\* and service_data_json is absent or a string.
JsonBrightness ==
    <<"{", Quote, "b", Quote, ":", "1", "}">>

JsonWithEntity ==
    <<" ", "{", Quote, "b", Quote, " ", ":", " ", "1", ",", " ",
      Quote, "e", "n", "t", "i", "t", "y", "_", "i", "d", Quote,
      ":", Quote, "x", ".", "y", Quote, "}", " ">>

JsonEntityOnly ==
    <<"{", Quote, "e", "n", "t", "i", "t", "y", "_", "i", "d",
      Quote, ":", Quote, "x", ".", "y", Quote, "}">>

JsonEmptyObject ==
    <<"{", "}">>

JsonList ==
    <<"[", "1", "]">>

JsonNumber ==
    <<"7">>

JsonTruncated ==
    <<"{", Quote, "b", Quote, ":", "1">>

JsonTexts ==
    { Unset, Val(<<>>), Val(<<" ">>), Val(JsonBrightness), Val(JsonWithEntity),
      Val(JsonEntityOnly), Val(JsonEmptyObject), Val(JsonList),
      Val(JsonNumber), Val(JsonTruncated) }

ToolArgs ==
    { [mapping |-> FALSE] }
    \cup
    [ mapping           : {TRUE},
      domain            : {Unset, Val(<<" ">>), Val(<<"f", "a", "n", " ">>),
                           Val(<<"l", "i", "g", "h", "t">>)},
      service           : {Unset, Val(<<"o", "n">>)},
      entity_id         : {Unset, Val(<<" ">>), Val(<<"f", "a", "n", ".", "a">>),
                           Val(<<" ", "l", "i", "g", "h", "t", ".", "b">>)},
      service_data_json : JsonTexts ]

\* Deployments: the default filter, no token, and a filter that admits
\* no entity to the prompt.
ExecSettings ==
    { DefaultSettings, NoTokenSettings,
      [DefaultSettings EXCEPT !.allowed_domains = << <<"l", "o", "c", "k">> >>,
                              !.entity_allowlist = << <<"l", "o", "c", "k", ".", "a">> >>,
                              !.entity_blocklist = << <<"*">> >>] }

InitExec ==
    /\ \E s \in ExecSettings : InitWith(s, 0)
    /\ flt = NoFilterRun /\ pcm = NoAudioCall /\ boot = Booted
    /\ svc \in [pc : {"input"}, args : ToolArgs]

\* _execute_control_home_assistant(args) up to the POST or its return.
ExecuteApply ==
    /\ svc.pc = "input"
    /\ svc' = ExecuteStart(svc.args)
    /\ UNCHANGED <<ctl_vars, boot, flt, pcm>>

\* The POST answered, or the HTTP client raised.
ExecutePost(outcome) ==
    /\ svc.pc = "post"
    /\ svc' = IF outcome = "raise"
              THEN [svc EXCEPT !.pc = "raised"]
              ELSE [svc EXCEPT !.pc = "done",
                               !.result = call_service_http(outcome)]
    /\ UNCHANGED <<ctl_vars, boot, flt, pcm>>

NextExec ==
    \/ ExecuteApply
    \/ \E outcome \in PostOutcomes : ExecutePost(outcome)

SpecExec == InitExec /\ [][NextExec]_vars

----------------------------------------------------------------------------
(* The adapter's view of the callbacks *)

IsStartOrStop(c) == c.cb \in {"start", "stop"}

\* Whether, after the callbacks in log, an on_start has been delivered that
\* no on_stop has followed.
StreamOpenAfter(log) ==
    LET ss == SelectSeq(log, IsStartOrStop)
    IN  ss # <<>> /\ ss[Len(ss)].cb = "start"

AdapterStreamOpen == StreamOpenAfter(out)

----------------------------------------------------------------------------
(* Claims *)

\* C1: the on_output_start / on_output_stop callbacks delivered to the
\* adapter strictly alternate, beginning with a start: no two starts without
\* a stop between them, no stop without a start that is not yet stopped.
C1_StartStopAlternate ==
    LET ss == SelectSeq(out, IsStartOrStop)
    IN  \A i \in 1..Len(ss) :
            ss[i].cb = (IF i % 2 = 1 THEN "start" ELSE "stop")

\* C2: every output stream that is opened is closed again (on_output_stop
\* invoked, output_stream_open cleared) when the turn completes, when the
\* stop signal is set, or when the session ends, gracefully or not.  On
\* finite runs: once the receive loop has ended and the session task has
\* finished after stop(), or waits for a stop signal that is not set, no
\* stream is left open.
C2_OpenedStreamClosed ==
    (/\ recv_pc \in {"done", "failed"}
     /\ \/ ~stop_evt /\ must_cancel = FALSE
        \/ hpc = "closed")
        => (~AdapterStreamOpen /\ ~output_stream_open)

\* C3: within one model turn on_output_start comes before every
\* on_output_chunk and before on_output_stop of that turn, on_output_start is
\* invoked at most once per turn, and no on_output_chunk is delivered while
\* no output stream is open.
C3_TurnCausality ==
    /\ \A j \in 1..Len(out) :
           out[j].cb \in {"chunk", "stop"} =>
               \E i \in 1..(j - 1) : /\ out[i].cb = "start"
                                     /\ out[i].turn = out[j].turn
    /\ \A i, j \in 1..Len(out) :
           (i < j /\ out[i].cb = "start" /\ out[j].cb = "start")
               => out[i].turn # out[j].turn
    /\ \A j \in 1..Len(out) :
           out[j].cb = "chunk" => StreamOpenAfter(SubSeq(out, 1, j - 1))

\* C4: the input queue never holds more than 50 chunks, and an enqueue
\* (enqueue_audio or end_user_turn) never waits: each chunk it adds ends up
\* at the tail in order, what remains in front of them is the old queue
\* without as many head (oldest) chunks as overflowed, and the size is the
\* smaller of 50 and the old size plus the chunks added.
C4_BoundedDropOldest ==
    /\ [](Len(input_audio_queue) <= QueueMaxSize /\ hpc # "put_wait")
    /\ [][ next_id' > next_id =>
             LET k    == next_id' - next_id
                 old  == input_audio_queue
                 new  == input_audio_queue'
                 kept == Len(new) - k
                 d    == Len(old) - kept
             IN  /\ hpc' = "serving"
                 /\ Len(new) = (IF Len(old) + k <= QueueMaxSize
                                THEN Len(old) + k ELSE QueueMaxSize)
                 /\ kept >= 0 /\ d >= 0
                 /\ \A j \in 1..k : new[kept + j].id = next_id + j
                 /\ \A j \in 1..kept : new[j] = old[j + d]
         ]_vars

\* C4 witness: the queue is full and an enqueue has dropped a chunk (more
\* chunks were accepted than were sent, are being sent, or are queued).
C4_Witness ==
    /\ Len(input_audio_queue) = QueueMaxSize
    /\ next_id > Len(sent) + (IF send_cur = NoChunk THEN 0 ELSE 1)
                 + Len(input_audio_queue)

\* C5: the chunks the send loop transmits are chunks that were enqueued, in
\* the order they were enqueued, none of them twice: one queued chunk per
\* send, no reordering.
C5_SentInOrder ==
    /\ \A i \in 1..Len(sent) : sent[i].id \in 1..next_id
    /\ \A i, j \in 1..Len(sent) : i < j => sent[i].id < sent[j].id

\* C5 witness: two chunks were sent one after the other although a chunk
\* enqueued between them was dropped (a proper subsequence).
C5_Witness ==
    \E i \in 1..(Len(sent) - 1) : sent[i + 1].id > sent[i].id + 1

\* C6: at most one session task is active at any time, and a new session
\* task is spawned only when no task exists or the previous one has finished.
C6_OneActiveTask ==
    /\ [](Cardinality({i \in DOMAIN tasks : tasks[i] # "done"}) <= 1)
    /\ [][ Len(tasks') > Len(tasks) =>
             /\ task = 0 \/ tasks[task] = "done"
             /\ Len(tasks') = Len(tasks) + 1
         ]_vars

\* C6 witness: a second session task is active after the first one finished
\* (its connection attempt failed).
C6_Witness ==
    /\ Len(tasks) = 2
    /\ tasks[1] = "done"
    /\ tasks[2] \notin {"new", "done"}

\* The replies submitted for request i.
RepliesTo(i) == { r \in DOMAIN tool_replies : tool_replies[r].req = i }

\* C7: every tool-call batch of k function calls gets exactly one reply,
\* which holds exactly k responses, the i-th with the id of the i-th call.
\* A batch is due its reply once the receive loop has gone on to the next
\* message or has been ended by an exception of the tool execution.
C7_OneReplyPerBatch ==
    /\ \A r \in DOMAIN tool_replies :
           LET calls == tool_requests[tool_replies[r].req].calls
               resp  == tool_replies[r].function_responses
           IN  /\ Len(resp) = Len(calls)
               /\ \A i \in 1..Len(calls) : resp[i].id = calls[i].id
    /\ \A i \in DOMAIN tool_requests : Cardinality(RepliesTo(i)) <= 1
    /\ (recv_pc = "msg" \/ recv_exc = "ClientError")
           => \A i \in DOMAIN tool_requests : RepliesTo(i) # {}

\* C8: for every message with a tool_call, with or without audio and
\* whatever barge_in is, the tool-call procedure has run and its responses
\* are submitted by the time the receive loop waits for the next message.
C8_ToolCallsBeforeNextMessage ==
    recv_pc = "msg" =>
        \A i \in DOMAIN tool_requests :
            \E r \in DOMAIN tool_replies : tool_replies[r].req = i

\* C9: a failing tool execution is answered with ok=false for that call and
\* never ends the receive loop: no exception of the POST reaches the loop,
\* and in every reply the calls that cannot succeed (unknown tool, arguments
\* that are no mapping, domain/service missing, no token) carry ok=false.
C9_ToolFailureNotFatal ==
    /\ recv_exc # "ClientError"
    /\ \A r \in DOMAIN tool_replies :
           LET calls == tool_requests[tool_replies[r].req].calls
               resp  == tool_replies[r].function_responses
           IN  \A i \in 1..Len(calls) :
                   (\/ calls[i].name # "control_home_assistant"
                    \/ calls[i].args # "valid"
                    \/ ~settings.ha_configured)
                       => (i <= Len(resp) /\ ~resp[i].ok)

\* C10: no on_output_chunk and no on_output_start is delivered to the
\* adapter in a state where barge_in is set.
C10_NoOutputWhileBargeIn ==
    \A i \in 1..Len(out) : out[i].cb \in {"start", "chunk"} => ~out[i].barge


\* C11: after the edge sends audio-start while the output stream is
\* streaming, no on_output_chunk is delivered for the rest of that model
\* turn (also when edge audio-chunks follow); the barge-in itself emits no
\* callback (no audio-stop); and the audio of a later turn is delivered
\* behind a fresh on_output_start of its own turn.
C11_BargeInDiscardsTurn ==
    /\ [](\A j \in 1..Len(out) :
              out[j].cb = "chunk" => out[j].after # "streaming")
    /\ [](\A j \in 1..Len(out) :
              out[j].cb = "chunk" =>
                  \E i \in 1..(j - 1) : /\ out[i].cb = "start"
                                        /\ out[i].turn = out[j].turn)
    /\ [][(~barge_in /\ barge_in') => out' = out]_vars

\* C12: once notify_barge_in() has set barge_in, only user input arriving
\* through enqueue_audio clears it (not the start of a new model turn), and
\* an audio message the receive loop reads while it is set is discarded.
C12_BargeInUntilUserInput ==
    /\ [][(barge_in /\ ~barge_in') => next_id' = next_id + 1]_vars
    /\ [][(barge_in /\ recv_pc = "msg" /\ Len(out') > Len(out))
              => out'[Len(out')].cb = "stop"]_vars

\* C12 (amended): once notify_barge_in() has set barge_in, the flag stays
\* set until user input arrives through enqueue_audio or the receive loop
\* starts the next model turn, whichever comes first; nothing else clears
\* it, and an audio message the receive loop reads while it is set is
\* discarded.
C12_BargeInUntilInputOrTurn ==
    /\ [][(barge_in /\ ~barge_in')
              => (next_id' = next_id + 1 \/ turn' = turn + 1)]_vars
    /\ [][(barge_in /\ recv_pc = "msg" /\ Len(out') > Len(out))
              => out'[Len(out')].cb = "stop"]_vars

\* C12 witness: the edge barged in while the stream was open, no audio has
\* arrived through enqueue_audio, and the audio of a later model turn has
\* been forwarded with the flag cleared.
C12_Witness ==
    /\ barge_log.kind = "streaming"
    /\ next_id = 0
    /\ \E j \in 1..Len(out) : /\ out[j].cb = "chunk"
                              /\ out[j].turn > barge_log.turn
                              /\ ~out[j].barge

\* C13: when barge_in is set in a model turn before the first audio payload
\* of that turn arrives, no callback (on_output_start, on_output_chunk,
\* on_output_stop) is invoked for that turn.
C13_NoStreamAfterEarlyBargeIn ==
    \A j \in 1..Len(out) : out[j].after # "fresh"


\* C14: when stop() returns, the stop signal is set, the session task has
\* finished (running is false) and neither the send loop nor the receive
\* loop is still alive.
C14_StopTerminatesAll ==
    hpc = "closed" =>
        /\ stop_evt
        /\ ~running
        /\ \A i \in DOMAIN tasks : tasks[i] = "done"
        /\ send_pc \in {"none", "failed"}
        /\ recv_pc \in {"none", "done", "failed"}

\* C15: when the receive loop is ended by a session error other than
\* ConnectionClosedOK, the session task tears the session down without
\* stop(): as long as the stream is open or running is true, the session
\* task has a step to take towards closing the stream and finishing.
C15_SessionErrorTearsDown ==
    (recv_pc = "failed" /\ recv_exc = "ConnectionClosedError")
        => ((output_stream_open \/ running) => ENABLED RunNext)

\* C16: on a graceful remote close the receive loop ends without an error
\* (only ConnectionClosedOK, swallowed by the loop); the open stream gets its
\* on_output_stop and the controller becomes re-runnable: as long as the
\* stream is open or running is true after the close, the session task has a
\* step to take.
C16_GracefulCloseRerunnable ==
    session = "closed_ok"
        => /\ recv_pc = "done" /\ recv_exc = "ConnectionClosedOK"
           /\ (AdapterStreamOpen \/ running) => ENABLED RunNext


\* C17: when opening the remote session fails, the session task ends
\* without invoking an output callback and without opening the output
\* stream, and running becomes false; the next audio event (audio-start,
\* audio-chunk or audio-stop, each through ensure_running) then spawns a
\* fresh session task, with the stop signal cleared.
C17_ConnectFailureRetry ==
    /\ [][fails_left' < fails_left =>
            /\ out' = out
            /\ ~output_stream_open /\ ~output_stream_open'
            /\ ~running'
         ]_vars
    /\ [][(/\ fails_left < MaxConnectFailures
           /\ ~running
           /\ \/ HandleAudioStart
              \/ HandleAudioStop
              \/ \E rate \in EdgeRates : HandleAudioChunk(rate))
            => /\ tasks' = Append(tasks, "new")
               /\ task' = Len(tasks')
               /\ ~stop_evt'
         ]_vars

\* C17 witness: the first connection attempt failed without any callback
\* and the session task spawned by a later audio event is connecting again.
C17_Witness ==
    /\ fails_left < MaxConnectFailures
    /\ Len(tasks) = 2
    /\ tasks[1] = "done"
    /\ tasks[2] = "connect"
    /\ out = <<>>
    /\ ~output_stream_open


\* Whether pattern list pats holds a glob that matches entity id e.
SomeGlobMatches(pats, e) == \E i \in 1..Len(pats) : fnmatch(e, pats[i])

\* Whether dom is the domain of entity id e: the prefix before the first
\* "." of e, and the empty string when e holds no ".".
IsDomainOf(dom, e) ==
    IF \E c \in 1..Len(e) : e[c] = "."
    THEN /\ Len(dom) < Len(e)
         /\ SubSeq(e, 1, Len(dom) + 1) = dom \o <<".">>
         /\ \A c \in 1..Len(dom) : dom[c] # "."
    ELSE dom = <<>>

\* C18: every entity filter_entities returns has a non-empty entity_id, a
\* domain (the prefix before the first ".") that is in allowed_domains when
\* that list is non-empty, an entity_id matched by some glob of the
\* allowlist when that list is non-empty, and matched by no glob of the
\* blocklist: an entry violating any of these is never returned.
C18_FilterRules ==
    flt.pc \in {"once", "twice"} =>
        \A k \in 1..Len(flt.result) :
            LET e == flt.result[k]
            IN  /\ e.entity_id # <<>>
                /\ IsDomainOf(e.domain, e.entity_id)
                /\ flt.allowed_domains # <<>> =>
                       \E d \in 1..Len(flt.allowed_domains) :
                           flt.allowed_domains[d] = e.domain
                /\ flt.allowlist # <<>> =>
                       SomeGlobMatches(flt.allowlist, e.entity_id)
                /\ ~SomeGlobMatches(flt.blocklist, e.entity_id)

\* C18 witness: a run in which each rule (domain, allowlist, blocklist,
\* empty entity_id) has removed nothing that is returned, with two entities
\* returned out of three entries.
C18_Witness ==
    /\ flt.pc = "once"
    /\ flt.allowed_domains # <<>>
    /\ flt.allowlist # <<>>
    /\ Len(flt.blocklist) = 2
    /\ Len(flt.states) = 3
    /\ Len(flt.result) = 2

\* C19: for every state list and every max_entities N, N = 0 included,
\* filter_entities returns at most N entities.
C19_AtMostMaxEntities ==
    flt.pc \in {"once", "twice"} => Len(flt.result) <= flt.max_entities

\* C20: applying the filter, with the same configuration, to the entries a
\* first application kept keeps the same entities in the same order.
C20_FilterIdempotent ==
    [][flt.pc = "once" =>
          /\ flt'.result = flt.result
          /\ flt'.kept = [k \in 1..Len(flt.kept) |-> k]]_vars

\* C20 witness: the filter has been applied twice to a list from which the
\* first application removed an entry and kept two.
C20_Witness ==
    /\ flt.pc = "twice"
    /\ Len(flt.result) = 2
    /\ Len(flt.states) = 3
    /\ flt.max_entities = 2

----------------------------------------------------------------------------
\* Whether GET /api/states failed: no response, a status other than 200, or
\* a body that is not a list.
FetchFailed(r) ==
    \/ r.kind = "raise"
    \/ r.kind = "response" /\ (r.status # 200 \/ ~r.is_list)

\* C21: a failed states fetch (401, another non-200 status, a non-list body,
\* a transport exception) yields exactly one placeholder line, which is the
\* device block of the system prompt, and the session task goes on to open
\* the remote session; the list of lines is never empty.
C21_FetchFailureOnePlaceholder ==
    /\ FetchFailed(context.fetch) =>
           /\ Len(context.entity_lines) = 1
           /\ context.entity_lines[1].text
                  \in {CouldNotFetch.text, NoEntitiesMatched.text}
           /\ context.system_prompt.device_block = context.entity_lines
    /\ context.fetch.kind # "none" =>
           /\ context.entity_lines # <<>>
           /\ \E i \in DOMAIN tasks : tasks[i] \notin {"new", "ctx"}
    /\ \A i \in DOMAIN tasks :
           tasks[i] = "connect" /\ ~Cancelled(i) => ENABLED RunConnectOk(i)

\* The session is open after a states fetch that was answered 500.
C21_Witness ==
    /\ context.fetch = HttpResponse(500, FALSE, <<>>)
    /\ session = "open"
    /\ recv_pc # "none"

----------------------------------------------------------------------------
\* C22: call_service always ends by returning a pair: "not configured"
\* first; else "domain/service missing" without any HTTP request; else
\* (true, "ok") exactly on status 200 and (false, "HTTP <status>: ...")
\* otherwise.  It never ends in another way (an exception).
C22_CallServiceReturnsPair ==
    /\ recv_pc = "failed" => recv_exc # "ClientError"
    /\ recv_pc = "tool_post" =>
           /\ settings.ha_configured
           /\ recv_msg.calls[fc_idx].args = "valid"
    /\ \A r \in DOMAIN tool_replies :
           LET calls == tool_requests[tool_replies[r].req].calls
               resp  == tool_replies[r].function_responses
           IN  \A i \in 1..Len(resp) :
                   (calls[i].name = "control_home_assistant"
                        /\ calls[i].args # "nomap") =>
                       LET pair == [ok |-> resp[i].ok, msg |-> resp[i].result]
                       IN  IF ~settings.ha_configured
                           THEN pair = [ok |-> FALSE, msg |->
                                    "Home Assistant token/URL not configured"]
                           ELSE IF calls[i].args = "missing"
                           THEN pair = [ok |-> FALSE,
                                        msg |-> "domain/service missing"]
                           ELSE pair \in { call_service_http(st) :
                                               st \in {"200", "500"} }

----------------------------------------------------------------------------
\* C23: iter_silence_chunks yields nothing when duration_ms <= 0; otherwise
\* its chunks total exactly floor(duration_ms * rate / 1000) samples:
\* floor(total / chunk) chunks of chunk_size_samples, then one chunk with
\* the remainder when the remainder is not zero.
C23_SilenceChunksFloor ==
    (pcm.pc = "done" /\ pcm.fn = "iter_silence_chunks") =>
        LET a     == pcm.args
            total == (a.duration_ms * a.sample_rate_hz) \div 1000
            full  == total \div a.chunk_size_samples
            rest  == total % a.chunk_size_samples
        IN  IF a.duration_ms <= 0 THEN pcm.result = <<>>
            ELSE /\ Len(pcm.result) = full + (IF rest # 0 THEN 1 ELSE 0)
                 /\ \A i \in 1..full : pcm.result[i] = a.chunk_size_samples
                 /\ rest # 0 => pcm.result[full + 1] = rest

----------------------------------------------------------------------------
\* The dialog is over and everything the controller accepted has been sent.
DialogSent ==
    /\ SilenceAccepted
    /\ input_audio_queue = <<>>
    /\ send_cur = NoChunk

\* The audio-chunk events of the dialog: all events but audio-start and
\* audio-stop.
DialogChunks == MaxDialogEvents - inputs_left - 2

\* What the model has received: the n audio payloads in the order of their
\* events, then `tail` silence chunks.
ReceivedThenTail(n, tail) ==
    /\ Len(sent) = n + tail
    /\ \A j \in 1..Len(sent) :
           /\ sent[j].id = j
           /\ sent[j].kind = (IF j <= n THEN "audio" ELSE "silence")

\* C24: after audio-start, n audio chunks and audio-stop on a session whose
\* model emits nothing, the model has received exactly the n payloads in
\* order followed by the silence tail, 9 chunks with the default settings,
\* and the adapter has received no audio event.
C24_SilentDialogNineChunks ==
    /\ out = <<>>
    /\ DialogSent => ReceivedThenTail(DialogChunks, 9)

\* C24 as the code has it: the silence tail of the default settings is 10
\* chunks, nine of 1024 samples and a last one of 384.
C24_SilentDialogTenChunks ==
    /\ out = <<>>
    /\ DialogSent =>
           /\ ReceivedThenTail(DialogChunks, 10)
           /\ \A j \in 1..Len(sent) :
                  sent[j].kind = "silence" =>
                      sent[j].samples = (IF j = Len(sent) THEN 384 ELSE 1024)

\* A dialog with two audio chunks has been sent whole on an open session.
C24_Witness ==
    /\ DialogSent
    /\ DialogChunks = 2
    /\ session = "open"
    /\ Len(sent) = 12

----------------------------------------------------------------------------
\* The audio payloads of the greeting received so far (while the turn is in
\* progress): every event but the client's audio chunk.
GreetingPayloads == MaxGreetingEvents - inputs_left - 1

\* on_start(rate), then n times on_chunk of a resampled payload.
StartThenChunks(log, n) ==
    /\ Len(log) = n + 1
    /\ log[1].cb = "start"
    /\ log[1].arg = settings.output_sample_rate_hz
    /\ \A j \in 2..Len(log) : log[j].cb = "chunk" /\ log[j].arg = ModelAudioOut

\* C25: in a model turn of n >= 1 audio payloads that completes while
\* barge_in is never set, the adapter receives exactly one on_start with
\* the configured output rate, then the n payloads one by one, each before
\* the next message is read, then exactly one on_stop.
C25_GreetingStartChunksStop ==
    /\ ~barge_in
    /\ (turn = 1 /\ recv_pc = "msg") =>
           IF GreetingPayloads = 0 THEN out = <<>>
           ELSE StartThenChunks(out, GreetingPayloads)
    /\ (turn = 2 /\ GreetingPayloads - 1 >= 1) =>
           /\ Len(out) = GreetingPayloads + 1
           /\ StartThenChunks(SubSeq(out, 1, Len(out) - 1), GreetingPayloads - 1)
           /\ out[Len(out)].cb = "stop"
           /\ ~output_stream_open

\* A greeting of three payloads has completed at output rate 16000 Hz.
C25_Witness ==
    /\ turn = 2
    /\ GreetingPayloads - 1 = 3
    /\ settings.output_sample_rate_hz = 16000
    /\ Len(out) = 5

----------------------------------------------------------------------------
ResampleDone == pcm.pc = "done" /\ pcm.fn = "resample_pcm16"

\* C26: resample_pcm16(x, r, r) = x, and resample_pcm16 of the empty signal
\* is the empty signal whatever the rates.
C26_ResampleIdentityAndEmpty ==
    ResampleDone =>
        /\ pcm.args.src_rate_hz = pcm.args.dst_rate_hz => pcm.result = pcm.args.x
        /\ pcm.args.x = <<>> => pcm.result = <<>>

\* A non-zero signal has been resampled at equal rates.
C26_Witness ==
    /\ ResampleDone
    /\ pcm.args.src_rate_hz = pcm.args.dst_rate_hz
    /\ pcm.args.x = <<1>>

\* C27: for a non-empty input of n samples and r # r', the output has
\* floor(n * r' / r) samples give or take one, and a zero signal resamples
\* to a zero signal of exactly floor(n * r' / r) samples.
C27_ResampleLength ==
    (ResampleDone /\ pcm.args.x # <<>>
        /\ pcm.args.src_rate_hz # pcm.args.dst_rate_hz) =>
        LET n  == Len(pcm.args.x)
            fl == (n * pcm.args.dst_rate_hz) \div pcm.args.src_rate_hz
        IN  /\ Len(pcm.result) \in {fl - 1, fl, fl + 1}
            /\ (\A i \in 1..n : pcm.args.x[i] = 0) =>
                   /\ Len(pcm.result) = fl
                   /\ \A i \in 1..Len(pcm.result) : pcm.result[i] = 0

----------------------------------------------------------------------------
\* C28: an edge event of any other type than describe, audio-start,
\* audio-chunk and audio-stop ends the connection, and whenever the edge
\* connection has terminated the controller is stopped: from then on
\* running is false and no output stream is left without its on_stop.
C28_TerminationStopsController ==
    [][ /\ HandleUnknownEvent => hpc' \in {"stopping", "closed"}
        /\ hpc' = "closed" =>
               /\ ~running'
               /\ ~output_stream_open'
               /\ ~AdapterStreamOpen' ]_vars

----------------------------------------------------------------------------
\* An inbound audio event is handled.
InboundAudioEvent ==
    \/ HandleAudioStart
    \/ \E rate \in EdgeRates : HandleAudioChunk(rate)
    \/ HandleAudioStop

\* C29: the session is created lazily.  After construction the controller
\* is not running; a describe event leaves running, the queue, barge_in and
\* output_stream_open as they are; a session task is spawned only by an
\* inbound audio event, and every such event leaves the controller running.
C29_LazySession ==
    /\ ~running /\ tasks = <<>> /\ input_audio_queue = <<>>
    /\ ~barge_in /\ ~output_stream_open
    /\ [][ /\ HandleDescribe =>
                  /\ running' = running
                  /\ UNCHANGED <<task, tasks, input_audio_queue, barge_in,
                                 output_stream_open>>
           /\ tasks' # tasks /\ Len(tasks') > Len(tasks) => InboundAudioEvent
           /\ InboundAudioEvent => running' ]_vars

\* One describe event and one audio chunk have been handled, in either
\* order: the chunk spawned the session task.
C29_Witness ==
    /\ inputs_left = MaxInputs - 2
    /\ barge_log.kind = "none"
    /\ next_id = 1
    /\ tasks = <<"new">>
    /\ running

----------------------------------------------------------------------------
----------------------------------------------------------------------------
\* An environment variable that is present and not blank.
EnvGiven(value) == value.set /\ strip(value.v) # <<>>

\* C31: for every key set both in the environment and in the options file
\* the loaded Settings has the environment's value; the value of the
\* options file is used only when the variable is absent or blank.
C31_EnvOverridesOptions ==
    boot.pc = "loaded" /\ "env" \in DOMAIN boot =>
        LET env == boot.env
            opt == boot.options
        IN  /\ EnvGiven(env.HA_TOKEN) /\ opt.ha_token.set =>
                   settings.ha_token = env.HA_TOKEN.v
            /\ (EnvGiven(env.SILENCE_TAIL_MS)
                    /\ py_int(env.SILENCE_TAIL_MS.v).ok
                    /\ opt.silence_tail_ms.set) =>
                   settings.silence_tail_ms = py_int(env.SILENCE_TAIL_MS.v).n
            /\ EnvGiven(env.MAX_CONTEXT_ENTITIES)
                    /\ opt.max_context_entities.set =>
                   settings.max_context_entities
                       = py_int(env.MAX_CONTEXT_ENTITIES.v).n
            /\ EnvGiven(env.ALLOWED_DOMAINS) /\ opt.allowed_domains.set =>
                   settings.allowed_domains = _split_csv(env.ALLOWED_DOMAINS)
            /\ EnvGiven(env.ENTITY_BLOCKLIST) /\ opt.entity_blocklist.set =>
                   settings.entity_blocklist = _split_csv(env.ENTITY_BLOCKLIST)

----------------------------------------------------------------------------
\* The responses built so far for tool request i: the submitted reply, or
\* the list of the procedure that is suspended in a POST.
ResponsesFor(i) ==
    IF RepliesTo(i) # {}
    THEN tool_replies[CHOOSE r \in RepliesTo(i) : TRUE].function_responses
    ELSE IF recv_pc = "tool_post" /\ i = Len(tool_requests) THEN responses
    ELSE <<>>

----------------------------------------------------------------------------
\* C33: the data of a control_home_assistant call contains entity_id only
\* when the trimmed entity_id argument is non-empty; a non-empty
\* service_data_json that parses to a mapping is merged into it, one that
\* does not parse or is no mapping is ignored and the service is still
\* called; exactly one call_service is made per call.
C33_ServiceData ==
    svc.pc \in {"post", "done", "raised"} =>
        /\ Len(svc.calls) = 1
        /\ LET data == svc.calls[1].data
               text == svc.args.service_data_json
               json == json_loads(text.v)
           IN  /\ EntityIdKey \in DOMAIN data
                      => ArgText(svc.args.entity_id) # <<>>
               /\ ArgText(svc.args.entity_id) # <<>>
                      => EntityIdKey \in DOMAIN data
               /\ (text.set /\ strip(text.v) # <<>> /\ json.ok /\ json.mapping)
                      => \A k \in DOMAIN json.map :
                             k \in DOMAIN data /\ data[k] = json.map[k]
               /\ ~(text.set /\ strip(text.v) # <<>> /\ json.ok /\ json.mapping)
                      => DOMAIN data \subseteq {EntityIdKey}

----------------------------------------------------------------------------
\* The entity ids the model supplied with a call: its entity_id argument
\* and an entity_id member of its service_data_json.
SuppliedEntityIds(args) ==
    LET text == args.service_data_json
        json == json_loads(text.v)
    IN  ({ ArgText(args.entity_id) } \ { <<>> })
        \cup (IF text.set /\ json.ok /\ json.mapping
                    /\ EntityIdKey \in DOMAIN json.map
              THEN { json.map[EntityIdKey].v }
              ELSE {})

\* C40: the entity filter restricts the prompt only.  For a
\* control_home_assistant call with non-empty domain and service on a
\* configured client the POST is made to exactly the domain and service the
\* model supplied, with an entity_id the model supplied, whatever
\* allowed_domains, the allowlist and the blocklist are.
C40_ToolCallsUnfiltered ==
    (/\ svc.pc \in {"post", "done", "raised"}
     /\ settings.ha_configured
     /\ ArgKindOf(svc.args) = "valid") =>
        /\ Len(svc.posts) = 1
        /\ svc.posts[1].domain = ArgText(svc.args.domain)
        /\ svc.posts[1].service = ArgText(svc.args.service)
        /\ SuppliedEntityIds(svc.args) # {}
               => EntityIdKey \in DOMAIN svc.posts[1].payload
        /\ EntityIdKey \in DOMAIN svc.posts[1].payload
               => svc.posts[1].payload[EntityIdKey].v
                      \in SuppliedEntityIds(svc.args)

\* A POST for an entity of a domain that is not allowed, with a blocklist
\* that matches the entity.
C40_Witness ==
    /\ svc.pc = "post"
    /\ settings.allowed_domains = << <<"l", "o", "c", "k">> >>
    /\ svc.posts[1].domain = <<"f", "a", "n">>
    /\ EntityIdKey \in DOMAIN svc.posts[1].payload
    /\ svc.posts[1].payload[EntityIdKey].v = <<"f", "a", "n", ".", "a">>
    /\ _matches_any(settings.entity_blocklist, <<"f", "a", "n", ".", "a">>)
    /\ ~_matches_any(settings.entity_allowlist, <<"f", "a", "n", ".", "a">>)

----------------------------------------------------------------------------
\* The fetches of GET /api/states made by session task i.
FetchesOf(i) == { n \in DOMAIN context.fetches : context.fetches[n].task = i }

\* C34: a session task with an API key fetches the entity snapshot once,
\* before its remote session is opened (a task that has opened its session
\* has made exactly one fetch, at a time when no session was open and no
\* turn of it had begun), and never again while the session lives; with an
\* empty API key the task ends without any fetch and without a session.
C34_SnapshotOncePerSession ==
    /\ \A i \in DOMAIN tasks :
           /\ Cardinality(FetchesOf(i)) <= 1
           /\ tasks[i] \in {"connect", "wait", "closing", "fin_cb"}
                  => Cardinality(FetchesOf(i)) = 1
           /\ tasks[i] \in {"new", "ctx"} => FetchesOf(i) = {}
    /\ \A n \in DOMAIN context.fetches :
           /\ context.fetches[n].session # "open"
           /\ n > 1 => context.fetches[n].task > context.fetches[n - 1].task
    /\ settings.gemini_api_key = <<>> =>
           /\ context = NoContext
           /\ session = "none"
           /\ \A i \in DOMAIN tasks : tasks[i] \in {"new", "done"}

\* The second turn of a session with a tool call answered: still the one
\* fetch of its task.
C34_Witness ==
    /\ session = "open"
    /\ turn >= 2
    /\ tool_replies # <<>>
    /\ Len(context.fetches) = 1

----------------------------------------------------------------------------
\* C35: notify_barge_in() changes only barge_in: output_stream_open, the
\* input queue, the stop signal and the session task are unchanged and no
\* output callback is invoked, so the output stream stays idle or
\* streaming as it was; the audio-start handler, which goes on to
\* ensure_running(), leaves the output side and the queue alone as well.
C35_BargeInFrame ==
    [][/\ NotifyBargeIn =>
              /\ barge_in'
              /\ UNCHANGED <<output_stream_open, input_audio_queue, stop_evt,
                             task, tasks, must_cancel, out, session,
                             send_vars, recv_vars>>
              /\ AdapterStreamOpen' = AdapterStreamOpen
       /\ HandleAudioStart =>
              /\ barge_in'
              /\ UNCHANGED <<output_stream_open, input_audio_queue, out>>
              /\ AdapterStreamOpen' = AdapterStreamOpen]_vars

\* Barge-in was notified while the output stream was open: it is still
\* open, with a live session and the stop signal unset.
C35_Witness ==
    /\ barge_in /\ barge_log.kind = "streaming"
    /\ output_stream_open /\ AdapterStreamOpen
    /\ running /\ ~stop_evt
    /\ tasks # <<>> /\ Len(tasks) = 1

----------------------------------------------------------------------------
\* C36: once stop() has returned no output callback is delivered any more:
\* no on_output_start, on_output_chunk or on_output_stop, by the session
\* task or by a send or receive loop of the stopped session.
C36_NoCallbackAfterStop ==
    [][hpc = "closed" => out' = out]_vars

----------------------------------------------------------------------------
\* Input is queued for a controller that is running with its stop signal
\* unset.
InputWaiting == running /\ ~stop_evt /\ input_audio_queue # <<>>

\* C37: while running is true and the stop signal is unset queued input
\* keeps flowing: under fair scheduling a queued chunk is eventually taken
\* and sent, or dropped; input never stays queued forever behind a send
\* loop or receive loop that has ended while the session task waits.
\* Runs in which the client and the model use up all their events are set
\* aside, so that input that stays queued does so while more could come.
C37_QueuedInputFlows ==
    <>(inputs_left = 0) \/ (InputWaiting ~> ~InputWaiting)

----------------------------------------------------------------------------
QueuedIds == { input_audio_queue[i].id : i \in DOMAIN input_audio_queue }

PassedIds == { handoff.passed[i] : i \in DOMAIN handoff.passed }

\* C38: no input chunk is lost or duplicated except by overflow: every
\* chunk accepted by enqueue_audio or end_user_turn is in exactly one of
\* three states: in the input queue (once), removed by drop-oldest, or
\* passed, exactly once, to the real-time send; also after the send loop
\* ended, after stop() and after a restart by ensure_running().
C38_ChunkAccounting ==
    /\ hpc # "put_wait"
    /\ \A c \in 1..next_id :
           Cardinality({ n \in DOMAIN input_audio_queue :
                            input_audio_queue[n].id = c })
             + Cardinality({ n \in DOMAIN handoff.passed :
                                handoff.passed[n] = c })
             + (IF c \in handoff.dropped THEN 1 ELSE 0) = 1
    /\ QueuedIds \cup PassedIds \cup handoff.dropped \subseteq 1..next_id
    /\ \A n \in DOMAIN sent : sent[n].id \in PassedIds
    /\ send_pc = "send" =>
           /\ handoff.passed # <<>>
           /\ send_cur.id = handoff.passed[Len(handoff.passed)]

\* After overflow, a restart and stop(): chunks dropped, chunks passed to
\* the send and chunks still queued.
C38_Witness ==
    /\ hpc = "closed"
    /\ Len(tasks) >= 2
    /\ handoff.dropped # {}
    /\ handoff.passed # <<>>
    /\ input_audio_queue # <<>>

----------------------------------------------------------------------------
\* A fiber is suspended inside on_output_start or on_output_stop: the
\* receive loop, or a session task in its finally block.
InStartOrStopCallback ==
    \/ recv_pc \in {"cb_start", "cb_stop"}
    \/ \E i \in DOMAIN tasks : tasks[i] = "fin_cb"

\* C39: output_stream_open mirrors the callback history: in every state in
\* which no fiber is suspended inside an on_output_start or on_output_stop
\* callback, output_stream_open is true exactly when an on_output_start has
\* been delivered that no on_output_stop has followed.
C39_FlagMirrorsCallbacks ==
    ~InStartOrStopCallback => (output_stream_open <=> AdapterStreamOpen)

====
